---------------------------- MODULE Spec2Model ----------------------------
(***************************************************************************)
(* News aggregation and relevance pipeline of the podcast-news backend:    *)
(* the relevance filter, the per-user usage gate, the summarize            *)
(* orchestrator and the article cache, as state machines translated from   *)
(* backend/server/index.js and backend/models (User, fallbackAuth).        *)
(*                                                                         *)
(* Strings are TLA+ strings; TLC evaluates Len, SubSeq and \o on them, so  *)
(* toLowerCase, includes and split are computed character by character.    *)
(***************************************************************************)
EXTENDS Integers, Sequences, FiniteSets, TLC

(***************************************************************************)
(* Bounds of the model.                                                    *)
(***************************************************************************)
MaxArts == 3        \* longest article list handed to the relevance filter
MaxMin == 4         \* largest minCount tried on the relevance filter

(***************************************************************************)
(* JavaScript string primitives.                                           *)
(***************************************************************************)
LowerChar(c) ==
  CASE c = "A" -> "a" [] c = "B" -> "b" [] c = "C" -> "c" [] c = "D" -> "d"
    [] c = "E" -> "e" [] c = "F" -> "f" [] c = "G" -> "g" [] c = "H" -> "h"
    [] c = "I" -> "i" [] c = "J" -> "j" [] c = "K" -> "k" [] c = "L" -> "l"
    [] c = "M" -> "m" [] c = "N" -> "n" [] c = "O" -> "o" [] c = "P" -> "p"
    [] c = "Q" -> "q" [] c = "R" -> "r" [] c = "S" -> "s" [] c = "T" -> "t"
    [] c = "U" -> "u" [] c = "V" -> "v" [] c = "W" -> "w" [] c = "X" -> "x"
    [] c = "Y" -> "y" [] c = "Z" -> "z" [] OTHER -> c

RECURSIVE ToLower(_)
ToLower(s) ==
  IF s = "" THEN ""
  ELSE LowerChar(SubSeq(s, 1, 1)) \o ToLower(SubSeq(s, 2, Len(s)))

\* String.prototype.includes
Includes(t, tok) ==
  \E i \in 1..(Len(t) - Len(tok) + 1) : SubSeq(t, i, i + Len(tok) - 1) = tok

AlnumChars ==
  {"a","b","c","d","e","f","g","h","i","j","k","l","m","n","o","p","q","r",
   "s","t","u","v","w","x","y","z","A","B","C","D","E","F","G","H","I","J",
   "K","L","M","N","O","P","Q","R","S","T","U","V","W","X","Y","Z",
   "0","1","2","3","4","5","6","7","8","9"}

IsAlnum(c) == c \in AlnumChars

\* The non-empty pieces of s.split(/[^a-z0-9]+/i): the maximal alphanumeric runs.
SplitAlnum(s) ==
  { SubSeq(s, i, j) : <<i, j>> \in
      { p \in (1..Len(s)) \X (1..Len(s)) :
          /\ p[1] <= p[2]
          /\ \A k \in p[1]..p[2] : IsAlnum(SubSeq(s, k, k))
          /\ (p[1] = 1 \/ ~IsAlnum(SubSeq(s, p[1] - 1, p[1] - 1)))
          /\ (p[2] = Len(s) \/ ~IsAlnum(SubSeq(s, p[2] + 1, p[2] + 1))) } }

(***************************************************************************)
(* News helpers.                                                           *)
(***************************************************************************)
CORE_CATEGORIES ==
  {"business", "entertainment", "general", "health", "science", "sports",
   "technology", "world"}

\* A geo argument: null, or an object whose absent fields read as "".
NoGeo == [isNull |-> TRUE, city |-> "", region |-> "", country |-> "", countryCode |-> ""]

MkGeo(city, region, country, countryCode) ==
  [isNull |-> FALSE, city |-> city, region |-> region, country |-> country,
   countryCode |-> countryCode]

\* A normalized article. badTitle: the provider sent a title that is truthy but
\* not a string (title then holds its String() form); string methods throw on it.
MkArticle(title, description, url, publishedAt, badTitle) ==
  [title |-> title, description |-> description, url |-> url,
   publishedAt |-> publishedAt, badTitle |-> badTitle]

(***************************************************************************)
(* filterRelevantArticles(topic, geo, articles, minCount)                  *)
(***************************************************************************)
GeoTokens(geo) ==
  { s \in { ToLower(x) : x \in {geo.city, geo.region, geo.country, geo.countryCode} } :
      Len(s) >= 2 }

TopicTokens(topicLower) ==
  { s \in { ToLower(x) : x \in SplitAlnum(topicLower) } : Len(s) >= 3 }

\* textHasAny(text, tokens)
TextHasAny(text, tokens) ==
  LET t == ToLower(text) IN \E tok \in tokens : tok # "" /\ Includes(t, tok)

\* The test of the first (strict) pass for one article.
StrictKeeps(topicLower, geoTokens, topicTokens, a) ==
  IF topicLower = "local"
  THEN \/ geoTokens # {} /\ (TextHasAny(a.title, geoTokens) \/ TextHasAny(a.description, geoTokens))
       \/ geoTokens = {}
  ELSE \/ topicLower \in CORE_CATEGORIES
       \/ topicTokens # {} /\ (TextHasAny(a.title, topicTokens) \/ TextHasAny(a.description, topicTokens))

\* One token's boost, in half points: +2 in the title, else +1 in the description.
TokenBoost(t, d, tok) == IF Includes(t, tok) THEN 4 ELSE IF Includes(d, tok) THEN 2 ELSE 0

\* for (const g of tokens) { if (t.includes(g)) s += 2; else if (d.includes(g)) s += 1; }
RECURSIVE Boosts(_, _, _)
Boosts(t, d, tokens) ==
  IF tokens = {} THEN 0
  ELSE LET tok == CHOOSE x \in tokens : TRUE
       IN  TokenBoost(t, d, tok) + Boosts(t, d, tokens \ {tok})

\* score(a), in half points (the freshness boost of 0.5 is 1).
Score(topicLower, geoTokens, topicTokens, a) ==
  LET t == ToLower(a.title)
      d == ToLower(a.description)
  IN  Boosts(t, d, geoTokens)
      + (IF topicLower \notin CORE_CATEGORIES THEN Boosts(t, d, topicTokens) ELSE 0)
      + (IF a.publishedAt # "" THEN 1 ELSE 0)

\* score(a) throws when a string method is called on a non-string title.
ScoreThrows(a) == a.badTitle

\* Mutant of SortByScore: the candidates stay in the order of the input.
SortByInputOrder(c, sc) == c

\* Mutant of SortByScore: candidates that score nothing are dropped.
RECURSIVE SortByScorePositive(_, _)
SortByScorePositive(c, sc) ==
  IF c = <<>> THEN <<>>
  ELSE LET best == CHOOSE k \in 1..Len(c) :
                     /\ \A j \in 1..Len(c) : sc[c[j]] <= sc[c[k]]
                     /\ \A j \in 1..(k - 1) : sc[c[j]] < sc[c[k]]
       IN  IF sc[c[best]] = 0 THEN <<>>
           ELSE <<c[best]>> \o
                SortByScorePositive(SubSeq(c, 1, best - 1) \o SubSeq(c, best + 1, Len(c)), sc)

\* Array.prototype.sort((x, y) => y.s - x.s): stable, descending score.
RECURSIVE SortByScore(_, _)
SortByScore(c, sc) ==
  IF c = <<>> THEN <<>>
  ELSE LET best == CHOOSE k \in 1..Len(c) :
                     /\ \A j \in 1..Len(c) : sc[c[j]] <= sc[c[k]]
                     /\ \A j \in 1..(k - 1) : sc[c[j]] < sc[c[k]]
       IN  <<c[best]>> \o
           SortByScore(SubSeq(c, 1, best - 1) \o SubSeq(c, best + 1, Len(c)), sc)

\* Array.prototype.filter on positions: those of c (in order) whose flag is set.
RECURSIVE SelectIdx(_, _)
SelectIdx(c, flag) ==
  IF c = <<>> THEN <<>>
  ELSE (IF flag[Head(c)] THEN <<Head(c)>> ELSE <<>>) \o SelectIdx(Tail(c), flag)

Range(f) == { f[i] : i \in DOMAIN f }

Iota(n) == [i \in 1..n |-> i]

Min2(a, b) == IF a <= b THEN a ELSE b

\* for (const a of xs) { out.push(a); if (out.length >= minCount) break; }
PushUntil(out, xs, minCount) ==
  IF xs = <<>> THEN out
  ELSE LET room == minCount - Len(out)
           n == IF room <= 1 THEN 1 ELSE Min2(room, Len(xs))
       IN  out \o SubSeq(xs, 1, n)

\* The positions of `articles` that filterRelevantArticles returns, in order
\* (an article object is identified by its position in the input array).
FilterIdx(topic, geo, articles, minCount) ==
  LET topicLower == ToLower(topic)
      isLocal == topicLower = "local"
      geoTokens == GeoTokens(geo)
      topicTokens == TopicTokens(topicLower)
      n == Len(articles)
      keep == [i \in 1..n |-> StrictKeeps(topicLower, geoTokens, topicTokens, articles[i])]
      strict == SelectIdx(Iota(n), keep)
      selected == Range(strict)
      notSel == [i \in 1..n |-> i \notin selected]
      rest == SelectIdx(Iota(n), notSel)
      sc == [i \in 1..n |-> Score(topicLower, geoTokens, topicTokens, articles[i])]
      backfilled == PushUntil(strict, SortByScore(rest, sc), minCount)
      permissive == IF isLocal /\ Len(backfilled) < minCount
                    THEN PushUntil(backfilled, rest, minCount)
                    ELSE backfilled
  IN  IF Len(strict) >= minCount THEN SubSeq(strict, 1, minCount)
      ELSE IF Len(permissive) > 0 THEN permissive
      ELSE SubSeq(Iota(n), 1, Min2(minCount, n))

\* Whether the call throws: score() is reached for a candidate with a bad title.
FilterThrows(topic, geo, articles, minCount) ==
  LET topicLower == ToLower(topic)
      geoTokens == GeoTokens(geo)
      topicTokens == TopicTokens(topicLower)
      keep == [i \in 1..Len(articles) |->
                 StrictKeeps(topicLower, geoTokens, topicTokens, articles[i])]
      strict == SelectIdx(Iota(Len(articles)), keep)
  IN  /\ Len(strict) < minCount
      /\ \E i \in 1..Len(articles) : i \notin Range(strict) /\ ScoreThrows(articles[i])

filterRelevantArticles(topic, geo, articles, minCount) ==
  LET idx == FilterIdx(topic, geo, articles, minCount)
  IN  [k \in 1..Len(idx) |-> articles[idx[k]]]

(***************************************************************************)
(* The inputs tried on the relevance filter.                               *)
(***************************************************************************)
ArtGeoTitle == MkArticle("LA fire", "", "u1", "t1", FALSE)
ArtTopicTitle == MkArticle("Mars", "in la", "u2", "", FALSE)
ArtPlain == MkArticle("x", "", "", "", FALSE)
ArtNoTitle == MkArticle("", "MARS us", "u4", "t4", FALSE)
ArtBadTitle == MkArticle("5", "d", "u5", "t5", TRUE)

FilterArticles == {ArtGeoTitle, ArtTopicTitle, ArtPlain, ArtNoTitle, ArtBadTitle}

FilterTopics == {"local", "business", "Mars", "AI"}

GeoLA == MkGeo("LA", "", "US", "US")
GeoShort == MkGeo("", "", "U", "")

FilterGeos == {NoGeo, GeoLA, GeoShort}

SeqsUpTo(S, n) == UNION { [1..k -> S] : k \in 0..n }

VARIABLES
  fArgs,      \* the arguments of the filterRelevantArticles call under test
  fRet        \* its outcome: pending, returned (with the list) or threw

filterVars == <<fArgs, fRet>>

FilterPending == [state |-> "pending", out |-> <<>>]

InitFilter ==
  /\ fArgs \in [topic : FilterTopics, geo : FilterGeos,
                articles : SeqsUpTo(FilterArticles, MaxArts) \ {<<>>},
                minCount : 0..MaxMin]
  /\ fRet = FilterPending

\* One call of filterRelevantArticles on the chosen arguments.
CallFilter ==
  /\ fRet.state = "pending"
  /\ fRet' = IF FilterThrows(fArgs.topic, fArgs.geo, fArgs.articles, fArgs.minCount)
             THEN [state |-> "threw", out |-> <<>>]
             ELSE [state |-> "returned",
                   out |-> filterRelevantArticles(fArgs.topic, fArgs.geo,
                                                  fArgs.articles, fArgs.minCount)]
  /\ UNCHANGED fArgs


(***************************************************************************)
(* C1: for every topic class, every geo (absent included) and every        *)
(* non-empty article list, the list that filterRelevantArticles returns    *)
(* has at least min(minCount, articles.length) elements.                   *)
(***************************************************************************)
C1_MinimumYield ==
  fRet.state = "returned" =>
    Len(fRet.out) >= Min2(fArgs.minCount, Len(fArgs.articles))

\* A local request with geo tokens in which the strict pass kept too few
\* articles and the backfill brought the list up to minCount.
C1_Witness ==
  /\ fRet.state = "returned"
  /\ fArgs.topic = "local" /\ fArgs.geo = GeoLA
  /\ fArgs.minCount = 3 /\ Len(fArgs.articles) = 3
  /\ Len(fRet.out) = 3
  /\ \E k \in 1..3 : ~StrictKeeps("local", GeoTokens(GeoLA), {}, fRet.out[k])

(***************************************************************************)
(* UsageGate: the user record and canFetchNews / incrementUsage, in the    *)
(* Mongoose model (models/User) and in the in-memory store (fallbackAuth). *)
(* A date is the calendar day it falls on (toDateString).                  *)
(***************************************************************************)
MaxDay == 2         \* the clock runs over the days 0..MaxDay
MaxCount == 2       \* no request is admitted once a record counts MaxCount summaries

DAILY_LIMIT == 1

UserIds == {1, 2}
NoUser == 0

\* fallbackUsers.values().next().value: the first user put in the map.
FirstFallbackUser == 1

UserRecords ==
  [isPremium : BOOLEAN, dailyUsageCount : 0..MaxCount, lastUsageDate : 0..MaxDay]

\* Mutant of Rollover: a new day moves lastUsageDate and keeps the count.
RolloverDateOnly(u, now) == [u EXCEPT !.lastUsageDate = now]

\* Mutant of Rollover: every check resets the count, same day or not.
RolloverAlways(u, now) == [u EXCEPT !.dailyUsageCount = 0, !.lastUsageDate = now]

\* "Reset daily count if it's a new day", on the record itself.
Rollover(u, now) ==
  IF u.lastUsageDate # now
  THEN [u EXCEPT !.dailyUsageCount = 0, !.lastUsageDate = now]
  ELSE u

NoCount == -1   \* the premium answer carries no dailyCount

\* Mutant of QuotaAnswer: the daily limit is tested before the premium flag.
QuotaAnswerLimitFirst(u) ==
  IF u.dailyUsageCount >= DAILY_LIMIT
  THEN [allowed |-> FALSE, reason |-> "daily_limit_reached", dailyCount |-> u.dailyUsageCount]
  ELSE IF u.isPremium THEN [allowed |-> TRUE, reason |-> "premium", dailyCount |-> NoCount]
  ELSE [allowed |-> TRUE, reason |-> "free_quota", dailyCount |-> u.dailyUsageCount]

\* The answer computed after the rollover.
QuotaAnswer(u) ==
  IF u.isPremium THEN [allowed |-> TRUE, reason |-> "premium", dailyCount |-> NoCount]
  ELSE IF u.dailyUsageCount >= DAILY_LIMIT
       THEN [allowed |-> FALSE, reason |-> "daily_limit_reached",
             dailyCount |-> u.dailyUsageCount]
       ELSE [allowed |-> TRUE, reason |-> "free_quota", dailyCount |-> u.dailyUsageCount]

\* userSchema.methods.canFetchNews: the document after the call, its answer,
\* and whether this.save() was issued.
UserCanFetchNews(doc, now) ==
  [user |-> Rollover(doc, now), answer |-> QuotaAnswer(Rollover(doc, now)),
   saved |-> doc.lastUsageDate # now]

\* fallbackAuth.canFetchNews(user): the shared object after the call, and its answer.
FallbackCanFetchNews(u, now) ==
  [user |-> Rollover(u, now), answer |-> QuotaAnswer(Rollover(u, now)), saved |-> FALSE]

\* userSchema.methods.incrementUsage / fallbackAuth.incrementUsage.
UserIncrementUsage(doc, now) ==
  [doc EXCEPT !.dailyUsageCount = @ + 1, !.lastUsageDate = now]

FallbackIncrementKeepsDate(u, now) == [u EXCEPT !.dailyUsageCount = @ + 1]

FallbackIncrementUsage(u, now) ==
  [u EXCEPT !.dailyUsageCount = @ + 1, !.lastUsageDate = now]

\* document.save(): Mongoose writes the paths the request modified.
SaveUsage(stored, doc) ==
  [stored EXCEPT !.dailyUsageCount = doc.dailyUsageCount,
                 !.lastUsageDate = doc.lastUsageDate]

(***************************************************************************)
(* isUpliftingNews(article)                                                *)
(***************************************************************************)
upliftingKeywords ==
  {"breakthrough", "achievement", "success", "victory", "triumph", "milestone",
   "innovation", "discovery", "progress", "advancement", "improvement", "growth",
   "celebration", "record", "award", "recognition", "honor", "accomplishment",
   "recovery", "healing", "cure", "treatment", "solution", "rescue", "save",
   "donation", "charity", "volunteer", "help", "support", "community", "kindness",
   "environmental", "sustainability", "green", "renewable", "clean energy", "conservation",
   "education", "learning", "scholarship", "graduation", "inspiration", "motivation",
   "art", "culture", "festival", "music", "creativity", "beauty",
   "sports", "championship", "medal", "gold", "silver", "bronze", "teamwork",
   "technology", "invention", "startup", "funding", "investment", "entrepreneur",
   "hope", "optimism", "resilience", "courage", "determination", "perseverance"}

negativeKeywords ==
  {"death", "died", "killed", "murder", "crime", "violence", "attack",
   "war", "conflict", "battle", "fighting", "bomb", "explosion",
   "disaster", "accident", "crash", "fire", "flood", "earthquake",
   "crisis", "emergency", "danger", "threat", "risk", "problem",
   "scandal", "corruption", "fraud", "theft", "robbery", "arrest",
   "disease", "pandemic", "outbreak", "infection", "virus", "illness",
   "recession", "unemployment", "layoff", "bankruptcy", "debt", "loss"}

\* Mutant of isUpliftingNews: the positive list is looked at first.
isUpliftingPositiveFirst(article) ==
  \E keyword \in upliftingKeywords :
    Includes(ToLower(article.title) \o " " \o ToLower(article.description), keyword)

isUpliftingNews(article) ==
  LET text == ToLower(article.title) \o " " \o ToLower(article.description)
      hasNegative == \E keyword \in negativeKeywords : Includes(text, keyword)
      hasUplifting == \E keyword \in upliftingKeywords : Includes(text, keyword)
  IN  IF hasNegative THEN FALSE ELSE hasUplifting

\* (article.title || "").toLowerCase() throws on a non-string title.
UpliftingThrows(article) == article.badTitle

\* relevant.filter(isUpliftingNews)
RECURSIVE FilterUplifting(_)
FilterUplifting(arts) ==
  IF arts = <<>> THEN <<>>
  ELSE (IF isUpliftingNews(Head(arts)) THEN <<Head(arts)>> ELSE <<>>)
       \o FilterUplifting(Tail(arts))

(***************************************************************************)
(* summarizeArticles(topic, geo, articles, wordCount, goodNewsOnly)        *)
(***************************************************************************)
\* Array.prototype.join
RECURSIVE Join(_, _)
Join(parts, sep) ==
  IF parts = <<>> THEN ""
  ELSE IF Len(parts) = 1 THEN parts[1]
  ELSE parts[1] \o sep \o Join(Tail(parts), sep)

\* .filter(Boolean) on strings
RECURSIVE NonEmpty(_)
NonEmpty(parts) ==
  IF parts = <<>> THEN <<>>
  ELSE (IF Head(parts) # "" THEN <<Head(parts)>> ELSE <<>>) \o NonEmpty(Tail(parts))

\* String.prototype.trim, on the blanks the model's strings hold
RECURSIVE TrimLeft(_)
TrimLeft(s) ==
  IF s # "" /\ SubSeq(s, 1, 1) = " " THEN TrimLeft(SubSeq(s, 2, Len(s))) ELSE s

RECURSIVE TrimRight(_)
TrimRight(s) ==
  IF s # "" /\ SubSeq(s, Len(s), Len(s)) = " " THEN TrimRight(SubSeq(s, 1, Len(s) - 1)) ELSE s

Trim(s) == TrimLeft(TrimRight(s))

Titles(arts) == [k \in 1..Len(arts) |-> arts[k].title]

FirstN(xs, n) == SubSeq(xs, 1, Min2(n, Len(xs)))

\* base: topic, region and country joined by blanks
SummaryBase(topic, geo) ==
  Join(NonEmpty(<<Trim(topic)>>
                \o (IF geo.region # "" THEN <<geo.region>> ELSE <<>>)
                \o (IF geo.country # "" \/ geo.countryCode # ""
                    THEN <<IF geo.country # "" THEN geo.country ELSE geo.countryCode>>
                    ELSE <<>>)), " ")

NoCoverageText(topic, geo) == "No recent coverage found for " \o SummaryBase(topic, geo) \o "."

UpliftingPrefix(goodNewsOnly) == IF goodNewsOnly THEN "uplifting " ELSE ""

\* The return of the branch "OpenAI API key not configured".
NoKeyText(topic, articles, goodNewsOnly) ==
  "Here's your " \o UpliftingPrefix(goodNewsOnly) \o topic \o " news. "
    \o Join(Titles(FirstN(articles, 3)), ". ") \o "."

\* The return of the catch block.
CatchText(topic, articles, goodNewsOnly) ==
  "Here's your " \o UpliftingPrefix(goodNewsOnly) \o topic \o " news. "
    \o Join(NonEmpty(Titles(FirstN(articles, 3))), ". ") \o "."

\* What the chat completion can do: answer with text, answer with no content or
\* a malformed body, or fail (exception, timeout).
LlmOutcomes == {"text", "empty", "malformed", "throws"}

LlmText == "Here's your news, from the model."

\* The prompt is built inside the try block; title.replace throws on a bad title.
PromptThrows(articles) == \E k \in 1..Min2(4, Len(articles)) : articles[k].badTitle

\* Mutant of TryBlock: a failed completion is read as an empty text.
TryBlockNeverRaises(articles, llm) ==
  [raised |-> FALSE, text |-> IF llm = "text" THEN LlmText ELSE "",
   llmCalled |-> ~PromptThrows(articles)]

\* The try block: the prompt is built, the completion is awaited and its
\* content read; raised is TRUE when any of it throws (a failed or timed-out
\* call, a malformed body, "No summary generated by ChatGPT").
TryBlock(articles, llm) ==
  IF PromptThrows(articles) THEN [raised |-> TRUE, text |-> "", llmCalled |-> FALSE]
  ELSE IF llm = "text" THEN [raised |-> FALSE, text |-> LlmText, llmCalled |-> TRUE]
  ELSE [raised |-> TRUE, text |-> "", llmCalled |-> TRUE]

\* Mutant of CatchBlock: the error is passed on to the caller.
CatchBlockRethrows(topic, articles, goodNewsOnly) ==
  [threw |-> TRUE, text |-> ""]

\* The catch block: the titles of the first three articles.
CatchBlock(topic, articles, goodNewsOnly) ==
  [threw |-> FALSE, text |-> CatchText(topic, articles, goodNewsOnly)]

\* What summarizeArticles does: the text it returns (or threw), the path that
\* produced it and whether the completion service was called.
summarizeArticles(topic, geo, articles, goodNewsOnly, hasOpenAiKey, llm) ==
  IF articles = <<>>
  THEN [threw |-> FALSE, text |-> NoCoverageText(topic, geo), path |-> "empty",
        llmCalled |-> FALSE]
  ELSE IF ~hasOpenAiKey
  THEN [threw |-> FALSE, text |-> NoKeyText(topic, articles, goodNewsOnly),
        path |-> "nokey", llmCalled |-> FALSE]
  ELSE LET t == TryBlock(articles, llm)
           c == CatchBlock(topic, articles, goodNewsOnly)
       IN  IF ~t.raised
           THEN [threw |-> FALSE, text |-> t.text, path |-> "llm", llmCalled |-> TRUE]
           ELSE [threw |-> c.threw, text |-> c.text, path |-> "catch",
                 llmCalled |-> t.llmCalled]

(***************************************************************************)
(* The summarize orchestrator: one iteration of the per-topic loop and the *)
(* global backfill (POST /api/summarize and /api/summarize/batch).         *)
(***************************************************************************)
MIN_SOURCES == 3

\* perTopic = wordCount >= 1500 ? 20 : wordCount >= 800 ? 12 : 6
PerTopic(wordCount) == IF wordCount >= 1500 THEN 20 ELSE IF wordCount >= 800 THEN 12 ELSE 6

DEFAULT_WORD_COUNT == 200

\* A SummaryItem; kind tells a retained article, a pool candidate and the
\* synthetic error item apart. ms is Date.now() when the id was made.
SourceItem(topic, idx, ms, a) ==
  [id |-> topic \o "-" \o ToString(idx) \o "-" \o ToString(ms),
   title |-> a.title, url |-> a.url, topic |-> topic, kind |-> "article"]

CandidateItem(topic, idx, ms, a) ==
  [id |-> topic \o "-cand-" \o ToString(idx) \o "-" \o ToString(ms),
   title |-> a.title, url |-> a.url, topic |-> topic, kind |-> "candidate"]

ErrorItem(topic, ms) ==
  [id |-> topic \o "-error-" \o ToString(ms),
   title |-> "Issue fetching " \o topic, url |-> "", topic |-> topic, kind |-> "error"]

\* (a.description || a.title || "").replace(...) throws on a non-string title.
SnippetThrows(a) == a.description = "" /\ a.badTitle

\* How many articles the pool loop pushes before it throws (all when none throws).
PoolPushed(articles) ==
  IF \E k \in 1..Len(articles) : SnippetThrows(articles[k])
  THEN (CHOOSE k \in 1..Len(articles) :
          /\ SnippetThrows(articles[k])
          /\ \A j \in 1..(k - 1) : ~SnippetThrows(articles[j])) - 1
  ELSE Len(articles)

PoolEntries(topic, ms, articles) ==
  [k \in 1..PoolPushed(articles) |-> CandidateItem(topic, k - 1, ms, articles[k])]

SourceItems(topic, ms, relevant) ==
  [k \in 1..Len(relevant) |-> SourceItem(topic, k - 1, ms, relevant[k])]

\* The accumulators of one handler run (items, combinedPieces, globalCandidates),
\* with the trail of what each topic did.
EmptyAcc == [items |-> <<>>, pieces |-> <<>>, pool |-> <<>>, trail |-> <<>>]

\* Mutant of TopicFailed: the failure leaves the error item alone in the list.
TopicFailedDropsItems(acc, topic, ms, stage) ==
  [acc EXCEPT !.items = <<ErrorItem(topic, ms)>>,
              !.trail = Append(@, [topic |-> topic, failed |-> TRUE, stage |-> stage,
                                   path |-> "none", llm |-> "none", text |-> "",
                                   relevant |-> <<>>])]

\* The catch of the per-topic try: one synthetic error item.
TopicFailed(acc, topic, ms, stage) ==
  [acc EXCEPT !.items = Append(@, ErrorItem(topic, ms)),
              !.trail = Append(@, [topic |-> topic, failed |-> TRUE, stage |-> stage,
                                   path |-> "none", llm |-> "none", text |-> "",
                                   relevant |-> <<>>])]

\* One iteration of "for (const topic of topics)". fetched is what
\* fetchArticlesForTopic did (threw, or the articles it returned); fetchGeo is
\* not needed here; filterGeo is the geo handed to the filter and the summarizer.
ProcessOneTopic(acc, topic, filterGeo, fetched, goodNewsOnly, wordCount, hasOpenAiKey, llm, ms) ==
  IF fetched.threw THEN TopicFailed(acc, topic, ms, "fetch")
  ELSE
  LET articles == fetched.articles
      pooled == [acc EXCEPT !.pool = @ \o PoolEntries(topic, ms, articles)]
  IN
  IF PoolPushed(articles) < Len(articles) THEN TopicFailed(pooled, topic, ms, "pool")
  ELSE IF FilterThrows(topic, filterGeo, articles, PerTopic(wordCount))
  THEN TopicFailed(pooled, topic, ms, "filter")
  ELSE
  LET kept == filterRelevantArticles(topic, filterGeo, articles, PerTopic(wordCount))
  IN
  IF goodNewsOnly /\ \E k \in 1..Len(kept) : UpliftingThrows(kept[k])
  THEN TopicFailed(pooled, topic, ms, "uplifting")
  ELSE
  LET relevant == IF goodNewsOnly THEN FilterUplifting(kept) ELSE kept
      summary == summarizeArticles(topic, filterGeo, relevant, goodNewsOnly, hasOpenAiKey, llm)
  IN
  IF summary.threw THEN TopicFailed(pooled, topic, ms, "summarize")
  ELSE [pooled EXCEPT
          !.pieces = IF summary.text # "" THEN Append(@, summary.text) ELSE @,
          !.items = @ \o SourceItems(topic, ms, relevant),
          !.trail = Append(@, [topic |-> topic, failed |-> FALSE, stage |-> "none",
                               path |-> summary.path,
                               llm |-> IF summary.llmCalled THEN llm ELSE "none",
                               text |-> summary.text, relevant |-> relevant])]

\* const key = c.url || c.id
ItemKey(i) == IF i.url # "" THEN i.url ELSE i.id

ItemKeys(items) == { ItemKey(items[k]) : k \in 1..Len(items) }

\* for (const c of globalCandidates) { if (have.has(key)) continue; items.push(c); ... }
RECURSIVE BackfillLoop(_, _, _)
BackfillLoop(items, have, pool) ==
  IF pool = <<>> THEN items
  ELSE LET c == Head(pool) IN
       IF ItemKey(c) \in have THEN BackfillLoop(items, have, Tail(pool))
       ELSE IF Len(items) + 1 >= MIN_SOURCES THEN Append(items, c)
       ELSE BackfillLoop(Append(items, c), have \cup {ItemKey(c)}, Tail(pool))

\* Mutant of Backfill: candidates are added only to an empty list.
BackfillWhenEmpty(items, pool) ==
  IF Len(items) = 0 /\ Len(pool) > 0
  THEN BackfillLoop(items, ItemKeys(items), pool)
  ELSE items

\* "Ensure at least 3 sources overall by backfilling from candidates"
Backfill(items, pool) ==
  IF Len(items) < MIN_SOURCES /\ Len(pool) > 0
  THEN BackfillLoop(items, ItemKeys(items), pool)
  ELSE items

\* One result of the response: { items, combined: { text, audioUrl: null } },
\* with the pool and the trail it was built from.
PipelineResult(acc) ==
  [items |-> Backfill(acc.items, acc.pool),
   text |-> Trim(Join(acc.pieces, " ")),
   pool |-> acc.pool, trail |-> acc.trail, before |-> acc.items]

(***************************************************************************)
(* The cache (cache.js) and fetchArticlesForTopic's use of it.  Time is in *)
(* seconds.                                                                *)
(***************************************************************************)
\* What fetchArticlesForTopic did for its caller.
Fetched(articles) == [threw |-> FALSE, articles |-> articles]

FetchThrew == [threw |-> TRUE, articles |-> <<>>]

MaxTime == 1200      \* the clock runs over 0..MaxTime
TickSeconds == 300   \* the clock moves by this much at a time

NEWS_TTL == 900

Max2(a, b) == IF a >= b THEN a ELSE b

\* pageSize = Math.min(Math.max(Number(maxResults) || 5, 1), 50)
PageSize(maxResults) == Min2(Max2(IF maxResults = 0 THEN 5 ELSE maxResults, 1), 50)

\* getNewsKey(topic, geo, wordCount)
getNewsKey(topic, geo, size) ==
  "news:" \o topic \o ":"
    \o (IF geo.isNull THEN "no-geo" ELSE geo.country \o "-" \o geo.region \o "-" \o geo.city)
    \o ":" \o ToString(size)

FetchTopics == {"business"}
FetchGeos == {NoGeo, GeoLA}
FetchSizes == {60, 70}

CacheKeys ==
  { getNewsKey(t, g, PageSize(n)) : t \in FetchTopics, g \in FetchGeos, n \in FetchSizes }

\* What the provider queries of one call come to: the merged articles, or an
\* exception that leaves fetchArticlesForTopic.
ProviderResults == { FetchThrew, Fetched(<<>>), Fetched(<<ArtGeoTitle>>) }

FetchCalls == {1, 2}

VARIABLES
  cacheConnected, \* cache.isConnected: Redis is used, else the in-memory map
  hasNewsKey,     \* NEWSAPI_KEY is set
  clock,          \* the time, in seconds
  cache,          \* per key: the entry of Redis or of fallbackCache
  timers,         \* the deletions setTimeout has scheduled: [key, at]
  calls,          \* the fetchArticlesForTopic calls in flight
  lastFetch,      \* the cache lookup of the step just taken, if it made one
  lastStore       \* per key: the most recent cache.set of a completed call

cacheVars ==
  <<cacheConnected, hasNewsKey, clock, cache, timers, calls, lastFetch, lastStore>>

Absent == [present |-> FALSE, value |-> <<>>, expiresAt |-> 0]

NoStore == [stored |-> FALSE, at |-> 0, value |-> <<>>]

IdleCall ==
  [pc |-> "idle", key |-> "", topic |-> "", geo |-> NoGeo, pageSize |-> 0,
   branches |-> <<>>]

NoFetch ==
  [phase |-> "none", started |-> FALSE, key |-> "", topic |-> "", geo |-> NoGeo,
   pageSize |-> 0,
   at |-> 0, hit |-> FALSE, value |-> <<>>, providerCalled |-> FALSE,
   cacheRead |-> FALSE, cacheFailed |-> FALSE, cacheThrew |-> FALSE,
   threw |-> FALSE, note |-> "", branches |-> <<>>, ref |-> NoStore]

\* The Redis server and this.fallbackCache are two stores; isConnected
\* chooses the one an operation uses.
Backends == {"redis", "memory"}

Slot(key) == <<IF cacheConnected THEN "redis" ELSE "memory", key>>

\* CacheManager.get(key): the stored value, or null.  Redis drops an entry
\* when its time to live is over.
CacheGet(key) ==
  IF cacheConnected
  THEN IF cache[Slot(key)].present /\ clock < cache[Slot(key)].expiresAt
       THEN cache[Slot(key)] ELSE Absent
  ELSE cache[Slot(key)]

\* CacheManager.set(key, value, ttlSeconds): setEx, or Map.set.
CacheSet(key, value, ttlSeconds) ==
  [cache EXCEPT ![Slot(key)] =
     [present |-> TRUE, value |-> value,
      expiresAt |-> IF cacheConnected THEN clock + ttlSeconds ELSE 0]]

\* setTimeout(() => this.fallbackCache.delete(key), ttlSeconds * 1000)
TimersAfterSet(key, ttlSeconds) ==
  IF cacheConnected THEN timers
  ELSE timers \cup {[key |-> key, at |-> clock + ttlSeconds]}

\* What a Redis command does: it answers, or it rejects (connection lost,
\* unparsable value).  The in-memory Map never rejects.
RedisOps == {"ok", "fails"}

RedisRejects(op) == cacheConnected /\ op = "fails"

CatchRethrows == [threw |-> TRUE, value |-> Absent]

\* catch (error) { return null; } of get, and the empty catch of set and del
CatchSwallows == [threw |-> FALSE, value |-> Absent]

\* async get(key): try { ... } catch (error) { return null; }
CacheGetOp(key, op) ==
  IF RedisRejects(op) THEN CatchSwallows
  ELSE [threw |-> FALSE, value |-> CacheGet(key)]

\* async set(key, value, ttlSeconds): try { ... } catch (error) { }
CacheSetOp(key, value, ttlSeconds, op) ==
  IF RedisRejects(op)
  THEN [threw |-> CatchSwallows.threw, cache |-> cache, timers |-> timers]
  ELSE [threw |-> FALSE, cache |-> CacheSet(key, value, ttlSeconds),
        timers |-> TimersAfterSet(key, ttlSeconds)]

\* async del(key): try { ... } catch (error) { }.  A pending deletion of the
\* in-memory entry stays scheduled.
CacheDelOp(key, op) ==
  IF RedisRejects(op)
  THEN [threw |-> CatchSwallows.threw, cache |-> cache]
  ELSE [threw |-> FALSE, cache |-> [cache EXCEPT ![Slot(key)] = Absent]]

\* fetchTopHeadlinesByCategory(category, countryCode, maxResults, extraQuery):
\* the query it sends.
TopHeadlines(category, countryCode, maxResults, extraQuery) ==
  [api |-> "top-headlines", category |-> category, country |-> ToLower(countryCode),
   q |-> extraQuery, pageSize |-> PageSize(maxResults)]

\* fetchArticlesEverything(qParts, maxResults): the query it sends.
Everything(qParts, maxResults) ==
  [api |-> "everything", category |-> "", country |-> "",
   q |-> Join(NonEmpty(qParts), " "), pageSize |-> PageSize(maxResults)]

\* A query on its way: it ends "ok" with the provider's article list, or
\* "failed" (!resp.ok, or fetch rejected: the function throws).
PendingBranch(query) == [query |-> query, state |-> "pending", articles |-> <<>>]

QueryFailed == [state |-> "failed", articles |-> <<>>]

QueryOk(articles) == [state |-> "ok", articles |-> articles]

CeilDiv(a, b) == (a + b - 1) \div b

\* geo?.country || geo?.countryCode || ""
GeoCountry(geo) == IF geo.country # "" THEN geo.country ELSE geo.countryCode

\* const bias = city || region || ""
GeoBias(geo) == IF geo.city # "" THEN geo.city ELSE geo.region

\* isGeneral, isLocal, useCategory, else free text
TopicClass(topic) ==
  LET t == ToLower(topic) IN
  IF t = "general" THEN "general"
  ELSE IF t = "local" THEN "local"
  ELSE IF t \in CORE_CATEGORIES /\ t # "world" THEN "category"
  ELSE "freetext"

otherTopics ==
  <<"business", "entertainment", "health", "science", "sports", "technology", "world">>

\* otherTopics.map(async (category) => ...): "world" by free-text search, the
\* others by category, one article each
GeneralPlan(countryCode) ==
  [i \in 1..Len(otherTopics) |->
     IF otherTopics[i] = "world" THEN Everything(<<"world">>, 1)
     ELSE TopHeadlines(otherTopics[i], countryCode, 1, "")]

\* the three queries pushed for a city, and for a region
PlaceQueries(place, countryCode, pageSize) ==
  IF place = "" THEN <<>>
  ELSE << TopHeadlines("general", countryCode, CeilDiv(pageSize, 3), "\"" \o place \o "\""),
          Everything(<<"title:" \o place>>, CeilDiv(pageSize, 3)),
          Everything(<<place>>, CeilDiv(pageSize, 3)) >>

\* the promises of the "local" branch
LocalPlan(geo, pageSize) ==
  PlaceQueries(geo.city, GeoCountry(geo), pageSize)
    \o PlaceQueries(geo.region, GeoCountry(geo), pageSize)
    \o (IF GeoCountry(geo) # ""
        THEN <<TopHeadlines("general", GeoCountry(geo), CeilDiv(pageSize, 2), "")>>
        ELSE <<>>)
    \o <<TopHeadlines("general", "", CeilDiv(pageSize, 2), "")>>

\* The queries fetchArticlesForTopic sends first.
FetchQueries(topic, geo, pageSize) ==
  CASE TopicClass(topic) = "general" -> GeneralPlan(GeoCountry(geo))
    [] TopicClass(topic) = "local" -> LocalPlan(geo, pageSize)
    [] TopicClass(topic) = "category" ->
         <<TopHeadlines(ToLower(topic), GeoCountry(geo), pageSize, GeoBias(geo))>>
    [] OTHER -> <<Everything(<<topic, geo.region, geo.city>>, pageSize)>>

FetchPlan(topic, geo, pageSize) ==
  [i \in 1..Len(FetchQueries(topic, geo, pageSize)) |->
     PendingBranch(FetchQueries(topic, geo, pageSize)[i])]

\* The call after a cache miss.
MissedCall(topic, geo, pageSize) ==
  [pc |-> "fetching", key |-> getNewsKey(topic, geo, pageSize), topic |-> topic,
   geo |-> geo, pageSize |-> pageSize, branches |-> FetchPlan(topic, geo, pageSize)]

\* if ((articles?.length || 0) < Math.min(5, pageSize) && bias)
ExtraNeeded(call) ==
  /\ TopicClass(call.topic) = "category"
  /\ Len(call.branches) = 1
  /\ call.branches[1].state = "ok"
  /\ Len(call.branches[1].articles) < Min2(5, call.pageSize)
  /\ GeoBias(call.geo) # ""

\* fetchArticlesEverything([normalizedTopic, bias], pageSize - articles.length)
ExtraQuery(call) ==
  Everything(<<ToLower(call.topic), GeoBias(call.geo)>>,
             call.pageSize - Len(call.branches[1].articles))

RECURSIVE Flat(_)
Flat(lists) ==
  IF lists = <<>> THEN <<>> ELSE Head(lists) \o Flat(Tail(lists))

FulfilledUnlessAnyRejected(branches) ==
  IF \E i \in DOMAIN branches : branches[i].state = "failed" THEN <<>>
  ELSE [i \in DOMAIN branches |-> branches[i].articles]

\* results.filter(result => result.status === 'fulfilled').map(r => r.value)
RECURSIVE Fulfilled(_)
Fulfilled(branches) ==
  IF branches = <<>> THEN <<>>
  ELSE (IF Head(branches).state = "ok" THEN <<Head(branches).articles>> ELSE <<>>)
         \o Fulfilled(Tail(branches))

BranchTakeAll(articles) == articles

\* worldArticles.slice(0, 1), categoryArticles.slice(0, 1)
BranchTake(articles) == FirstN(articles, 1)

\* One branch of "general": try { ... slice(0, 1) } catch (error) { return []; }
GeneralBranches(branches) ==
  [i \in DOMAIN branches |->
     QueryOk(IF branches[i].state = "ok" THEN BranchTake(branches[i].articles) ELSE <<>>)]

\* .filter(article => article && article.title)
RECURSIVE Titled(_)
Titled(articles) ==
  IF articles = <<>> THEN <<>>
  ELSE (IF Head(articles).title # "" THEN <<Head(articles)>> ELSE <<>>)
         \o Titled(Tail(articles))

\* articles.map((a) => ({ title: a.title || "", ... }))
Normalize(articles) ==
  [i \in DOMAIN articles |->
     MkArticle(articles[i].title, articles[i].description, articles[i].url,
               articles[i].publishedAt, articles[i].badTitle)]

\* Every query of the call has ended.
PlanSettled(call) ==
  \A i \in DOMAIN call.branches : call.branches[i].state # "pending"

\* What the provider part of fetchArticlesForTopic ends with, from how its
\* queries ended.  Promise.allSettled never rejects, so the catch blocks
\* around it never run.
PlanResult(call) ==
  CASE TopicClass(call.topic) = "general" ->
         Fetched(Normalize(Titled(Flat(Fulfilled(GeneralBranches(call.branches))))))
    [] TopicClass(call.topic) = "local" ->
         Fetched(Normalize(FirstN(Flat(Fulfilled(call.branches)), call.pageSize)))
    [] OTHER ->
         IF \E i \in DOMAIN call.branches : call.branches[i].state = "failed"
         THEN FetchThrew
         ELSE Fetched(Normalize(Flat(Fulfilled(call.branches))))

\* A provider query of call c ends; a category query that came back short is
\* followed by the free-text query.
QuerySettle(c, Outcomes) ==
  /\ calls[c].pc = "fetching"
  /\ \E i \in DOMAIN calls[c].branches, o \in Outcomes :
       /\ calls[c].branches[i].state = "pending"
       /\ LET settled == [calls[c].branches EXCEPT
                            ![i] = [@ EXCEPT !.state = o.state, !.articles = o.articles]]
              call == [calls[c] EXCEPT !.branches = settled]
          IN calls' = [calls EXCEPT ![c] =
                         IF ExtraNeeded(call)
                         THEN [call EXCEPT !.branches =
                                 Append(settled, PendingBranch(ExtraQuery(call)))]
                         ELSE call]
  /\ lastFetch' = NoFetch
  /\ UNCHANGED <<cacheConnected, hasNewsKey, clock, cache, timers, lastStore>>

KeyMissingNever == FALSE

\* if (!NEWSAPI_KEY)
KeyMissing == ~hasNewsKey

\* fetchArticlesForTopic up to the provider queries: without NEWSAPI_KEY it
\* returns no article; a cached result is returned as it is; on a miss the
\* provider is queried.
FetchStart(c, Topics, Geos, Sizes, Ops) ==
  /\ calls[c].pc = "idle"
  /\ \E topic \in Topics, geo \in Geos, maxResults \in Sizes, op \in Ops :
       LET pageSize == PageSize(maxResults)
           key == getNewsKey(topic, geo, pageSize)
           got == CacheGetOp(key, op)
           cached == got.value
           seen == [NoFetch EXCEPT !.phase = "start", !.started = TRUE, !.key = key,
                                   !.topic = topic, !.geo = geo,
                                   !.pageSize = pageSize, !.at = clock]
           read == [seen EXCEPT !.cacheRead = TRUE, !.cacheFailed = RedisRejects(op),
                                !.ref = lastStore[key]]
       IN
       IF KeyMissing
       THEN /\ lastFetch' = [seen EXCEPT !.note = "Missing NEWSAPI_KEY"]
            /\ calls' = calls
       ELSE IF got.threw
       THEN /\ lastFetch' = [read EXCEPT !.cacheThrew = TRUE, !.threw = TRUE]
            /\ calls' = calls
       ELSE IF cached.present
       THEN /\ lastFetch' = [read EXCEPT !.hit = TRUE, !.value = cached.value]
            /\ calls' = calls
       ELSE /\ lastFetch' = [read EXCEPT !.providerCalled = TRUE]
            /\ calls' = [calls EXCEPT ![c] = MissedCall(topic, geo, pageSize)]
  /\ UNCHANGED <<cacheConnected, hasNewsKey, clock, cache, timers, lastStore>>

\* The provider queries of call c end: the normalized result is stored for
\* NEWS_TTL seconds and returned, or the exception leaves the call.
FetchFinish(c, Results, Ops) ==
  /\ calls[c].pc = "fetching"
  /\ \E result \in Results, op \in Ops :
       LET key == calls[c].key
           put == CacheSetOp(key, result.articles, NEWS_TTL, op)
           seen == [NoFetch EXCEPT !.phase = "finish", !.key = key,
                                   !.topic = calls[c].topic, !.geo = calls[c].geo,
                                   !.pageSize = calls[c].pageSize,
                                   !.at = clock, !.providerCalled = TRUE,
                                   !.branches = calls[c].branches]
       IN
       IF result.threw
       THEN /\ lastFetch' = [seen EXCEPT !.threw = TRUE]
            /\ UNCHANGED <<cache, timers, lastStore>>
       ELSE /\ cache' = put.cache
            /\ timers' = put.timers
            /\ lastStore' =
                 IF RedisRejects(op) THEN lastStore
                 ELSE [lastStore EXCEPT ![key] =
                         [stored |-> TRUE, at |-> clock, value |-> result.articles]]
            /\ lastFetch' = [seen EXCEPT !.value = result.articles,
                                         !.cacheFailed = RedisRejects(op),
                                         !.cacheThrew = put.threw, !.threw = put.threw]
  /\ calls' = [calls EXCEPT ![c] = IdleCall]
  /\ UNCHANGED <<cacheConnected, hasNewsKey, clock>>

\* cache.del(key)
CacheDelete(Keys, Ops) ==
  /\ \E key \in Keys, op \in Ops :
       LET gone == CacheDelOp(key, op) IN
       /\ cache' = gone.cache
       /\ lastFetch' = [NoFetch EXCEPT !.phase = "del", !.key = key, !.at = clock,
                                       !.cacheFailed = RedisRejects(op),
                                       !.cacheThrew = gone.threw, !.threw = gone.threw]
       /\ lastStore' =
            IF RedisRejects(op) THEN lastStore ELSE [lastStore EXCEPT ![key] = NoStore]
  /\ UNCHANGED <<cacheConnected, hasNewsKey, clock, timers, calls>>

\* this.client.on('error', ...) and this.client.on('connect', ...)
ConnectionChange ==
  /\ cacheConnected' = ~cacheConnected
  /\ lastFetch' = NoFetch
  /\ UNCHANGED <<hasNewsKey, clock, cache, timers, calls, lastStore>>

\* A scheduled deletion is due: this.fallbackCache.delete(key).
TimerFire ==
  /\ \E t \in timers :
       /\ t.at <= clock
       /\ cache' = [cache EXCEPT ![<<"memory", t.key>>] = Absent]
       /\ timers' = timers \ {t}
  /\ lastFetch' = NoFetch
  /\ UNCHANGED <<cacheConnected, hasNewsKey, clock, calls, lastStore>>

\* Time passes; the deletions that are due run first.
Tick ==
  /\ clock + TickSeconds <= MaxTime
  /\ \A t \in timers : t.at > clock
  /\ clock' = clock + TickSeconds
  /\ lastFetch' = NoFetch
  /\ UNCHANGED <<cacheConnected, hasNewsKey, cache, timers, calls, lastStore>>

InitCache ==
  /\ cacheConnected \in BOOLEAN
  /\ hasNewsKey \in BOOLEAN
  /\ clock = 0
  /\ cache = [s \in Backends \X CacheKeys |-> Absent]
  /\ timers = {}
  /\ calls = [c \in FetchCalls |-> IdleCall]
  /\ lastFetch = NoFetch
  /\ lastStore = [k \in CacheKeys |-> NoStore]

\* The cache, unused.
CacheIdle == InitCache /\ cacheConnected = FALSE /\ hasNewsKey = TRUE

(***************************************************************************)
(* Requests.  A slot holds one request in flight; the steps of a handler   *)
(* are cut where it awaits.                                                *)
(***************************************************************************)
Slots == {1, 2}

VARIABLES
  dbUp,          \* mongoose.connection.readyState === 1
  hasOpenAiKey,  \* OPENAI_API_KEY is set
  today,         \* the calendar day of the clock
  users,         \* the stored user records (the users collection or fallbackUsers)
  reqs,          \* the requests in flight, per slot
  lastCheck,     \* the canFetchNews call of the step just taken, if it made one
  lastResp,      \* the response sent by the step just taken, if it sent one
  recorded       \* per user: a usage of one of its requests was recorded today

gateVars == <<dbUp, hasOpenAiKey, today, users, reqs, lastCheck, lastResp, recorded>>

NoDoc == [isPremium |-> FALSE, dailyUsageCount |-> 0, lastUsageDate |-> 0]

IdleReq ==
  [pc |-> "idle", endpoint |-> "none", token |-> NoUser, uid |-> NoUser, doc |-> NoDoc,
   overlap |-> FALSE, body |-> <<>>, accs |-> <<>>]

NoCheck ==
  [uid |-> NoUser, token |-> NoUser, day |-> 0, before |-> NoDoc, after |-> NoDoc,
   stored |-> NoDoc, allowed |-> TRUE, reason |-> "none", dailyCount |-> NoCount,
   overlap |-> FALSE, recorded |-> FALSE]

NoResp ==
  [status |-> 0, endpoint |-> "none", token |-> NoUser, dailyCount |-> NoCount,
   incremented |-> FALSE, topics |-> <<>>, results |-> <<>>, overlap |-> FALSE,
   goodNewsOnly |-> <<>>]

InFlight(uid) == { r \in Slots : reqs[r].pc # "idle" /\ reqs[r].uid = uid }

\* The requests in flight that carry the same token.
SameToken(token) ==
  { q \in Slots : reqs[q].pc # "idle" /\ reqs[q].token = token /\ token # NoUser }

\* optionalAuth / authenticateToken: the user the token resolves to.
\* User.findById(decoded.userId), or fallbackAuth.findUserById, which gives
\* the first user of the map whatever the id.
FindUser(token) ==
  IF token = NoUser THEN NoUser
  ELSE IF dbUp THEN token
  ELSE FirstFallbackUser

\* canFetchNews on req.user, by the store in use: under Mongo req.user is the
\* document just loaded, in fallback mode the shared object of the map.
CanFetchNews(uid) ==
  IF dbUp THEN UserCanFetchNews(users[uid], today)
  ELSE FallbackCanFetchNews(users[uid], today)

\* The stored records after canFetchNews ran on the user uid.
UsersAfterCheck(uid) ==
  LET c == CanFetchNews(uid) IN
  IF dbUp
  THEN IF c.saved THEN [users EXCEPT ![uid] = SaveUsage(@, c.user)] ELSE users
  ELSE [users EXCEPT ![uid] = c.user]

CheckRecord(token, uid) ==
  LET c == CanFetchNews(uid) IN
  [uid |-> uid, token |-> token, day |-> today, before |-> users[uid], after |-> c.user,
   stored |-> UsersAfterCheck(uid)[uid],
   allowed |-> c.answer.allowed, reason |-> c.answer.reason,
   dailyCount |-> c.answer.dailyCount,
   overlap |-> SameToken(token) # {}, recorded |-> recorded[token]]

Response(endpoint, token, status, dailyCount, incremented, topics, results) ==
  [status |-> status, endpoint |-> endpoint, token |-> token,
   dailyCount |-> dailyCount, incremented |-> incremented, topics |-> topics,
   results |-> results, overlap |-> FALSE, goodNewsOnly |-> <<>>]

\* A request arrives: the middleware resolves the token and loads the user, and
\* the handler runs to its first await: the usage check (429), the validation
\* of the body (400), a batch entry that is not an object (500), or the start
\* of the per-topic loops.  GET /api/auth/usage answers right away.
Receive(r, Tokens, Bodies) ==
  /\ reqs[r].pc = "idle"
  /\ \A q \in Slots : q < r => reqs[q].pc # "idle"
  /\ \E endpoint \in {"summarize", "batch", "usage"}, token \in Tokens :
       LET uid == FindUser(token)
           gated == uid # NoUser
           c == CanFetchNews(uid)
           same == SameToken(token)
           answer(status, dailyCount) ==
             /\ reqs' = reqs
             /\ lastResp' = Response(endpoint, token, status, dailyCount, FALSE, <<>>, <<>>)
       IN
       /\ endpoint = "usage" => token # NoUser
       /\ gated => users[uid].dailyUsageCount + Cardinality(InFlight(uid)) < MaxCount
       /\ users' = IF gated THEN UsersAfterCheck(uid) ELSE users
       /\ lastCheck' = IF gated THEN CheckRecord(token, uid) ELSE NoCheck
       /\ IF endpoint = "usage" THEN answer(200, c.user.dailyUsageCount)
          ELSE IF gated /\ ~c.answer.allowed THEN answer(429, c.answer.dailyCount)
          ELSE \E body \in Bodies :
                 /\ body.endpoint = endpoint
                 /\ IF ~body.isArray THEN answer(400, NoCount)
                    ELSE IF \E b \in 1..Len(body.batches) : body.batches[b].isNull
                    THEN answer(500, NoCount)
                    ELSE /\ reqs' = [q \in Slots |->
                              IF q = r
                              THEN [pc |-> "running", endpoint |-> endpoint,
                                    token |-> token, uid |-> uid,
                                    doc |-> IF dbUp /\ gated THEN c.user ELSE NoDoc,
                                    overlap |-> same # {}, body |-> body.batches,
                                    accs |-> [b \in 1..Len(body.batches) |-> EmptyAcc]]
                              ELSE IF q \in same THEN [reqs[q] EXCEPT !.overlap = TRUE]
                              ELSE reqs[q]]
                         /\ lastResp' = NoResp
  /\ UNCHANGED <<dbUp, hasOpenAiKey, today, recorded>>

\* The batches of request r that still have a topic to process.
Unfinished(r) ==
  { b \in 1..Len(reqs[r].body) : Len(reqs[r].accs[b].trail) < Len(reqs[r].body[b].topics) }

\* Mutant of PipelineDone: the handler goes on to the usage increment without
\* waiting for the per-topic loops.
PipelineDoneEarly(r) == TRUE

\* Every topic of every batch went through its loop iteration.
PipelineDone(r) == Unfinished(r) = {}

\* One iteration of a per-topic loop of request r; the batches of a batch
\* request run their loops side by side (Promise.all).
ProcessTopic(r, Fetches, Llms, Clock) ==
  /\ reqs[r].pc = "running"
  /\ Unfinished(r) # {}
  /\ \E b \in Unfinished(r), fetched \in Fetches, llm \in Llms, ms \in Clock :
       LET batch == reqs[r].body[b]
           acc == reqs[r].accs[b]
           topic == batch.topics[Len(acc.trail) + 1]
       IN  reqs' = [reqs EXCEPT ![r].accs[b] =
                      ProcessOneTopic(acc, topic, batch.geo, fetched, batch.goodNewsOnly,
                                      batch.wordCount, hasOpenAiKey, llm, ms)]
  /\ lastCheck' = NoCheck /\ lastResp' = NoResp
  /\ UNCHANGED <<dbUp, hasOpenAiKey, today, users, recorded>>

\* Mutant of UsersAfterIncrement: the count is set to one, not raised by one.
UsersAfterIncrementToOne(r) ==
  [users EXCEPT ![reqs[r].uid] = [@ EXCEPT !.dailyUsageCount = 1, !.lastUsageDate = today]]

\* The stored records after incrementUsage ran for request r (and was saved).
UsersAfterIncrement(r) ==
  IF dbUp
  THEN [users EXCEPT ![reqs[r].uid] = SaveUsage(@, UserIncrementUsage(reqs[r].doc, today))]
  ELSE [users EXCEPT ![reqs[r].uid] = FallbackIncrementUsage(@, today)]

\* The end of the handler: the backfill of every result, the usage increment
\* (if authenticated) and the response.
Finish(r) ==
  /\ reqs[r].pc = "running"
  /\ PipelineDone(r)
  /\ LET gated == reqs[r].uid # NoUser
     IN
     /\ users' = IF gated THEN UsersAfterIncrement(r) ELSE users
     /\ lastResp' = [Response(reqs[r].endpoint, reqs[r].token, 200, NoCount, gated,
                              [b \in 1..Len(reqs[r].body) |-> reqs[r].body[b].topics],
                              [b \in 1..Len(reqs[r].body) |->
                                 PipelineResult(reqs[r].accs[b])])
                       EXCEPT !.overlap = reqs[r].overlap,
                              !.goodNewsOnly = [b \in 1..Len(reqs[r].body) |->
                                                  reqs[r].body[b].goodNewsOnly]]
     /\ recorded' = IF gated THEN [recorded EXCEPT ![reqs[r].token] = TRUE] ELSE recorded
  /\ reqs' = [reqs EXCEPT ![r] = IdleReq]
  /\ lastCheck' = NoCheck
  /\ UNCHANGED <<dbUp, hasOpenAiKey, today>>

\* The clock passes midnight.
Midnight ==
  /\ today < MaxDay
  /\ today' = today + 1
  /\ recorded' = [u \in UserIds |-> FALSE]
  /\ lastCheck' = NoCheck /\ lastResp' = NoResp
  /\ UNCHANGED <<dbUp, hasOpenAiKey, users, reqs>>

\* updateSubscription(isPremium, ...): a purchase or the admin set-premium route.
SetPremium(u) ==
  /\ \E p \in BOOLEAN :
       /\ p # users[u].isPremium
       /\ users' = [users EXCEPT ![u].isPremium = p]
  /\ lastCheck' = NoCheck /\ lastResp' = NoResp
  /\ UNCHANGED <<dbUp, hasOpenAiKey, today, reqs, recorded>>

\* A user as createUser / createFallbackUser makes it.
NewUser(now) == [isPremium |-> FALSE, dailyUsageCount |-> 0, lastUsageDate |-> now]

InitGate ==
  /\ dbUp \in BOOLEAN
  /\ hasOpenAiKey \in BOOLEAN
  /\ today = 0
  /\ users = [u \in UserIds |-> NewUser(0)]
  /\ reqs = [r \in Slots |-> IdleReq]
  /\ lastCheck = NoCheck
  /\ lastResp = NoResp
  /\ recorded = [u \in UserIds |-> FALSE]

(***************************************************************************)
(* The request bodies and the fetch results of the runs.                   *)
(***************************************************************************)
\* The geo the single endpoint derives from body.geo (geoData), null without it.
SingleGeoData(geo) ==
  IF geo.isNull THEN NoGeo
  ELSE MkGeo(geo.city, geo.region,
             IF geo.country # "" THEN geo.country ELSE geo.countryCode,
             IF geo.countryCode # "" THEN geo.countryCode ELSE geo.country)

\* The batch endpoint hands { country: location } to the filter and the summarizer.
BatchFilterGeo(location) == MkGeo("", "", location, "")

Batch(topics, goodNewsOnly, geo) ==
  [isNull |-> FALSE, topics |-> topics, goodNewsOnly |-> goodNewsOnly, geo |-> geo,
   wordCount |-> DEFAULT_WORD_COUNT]

NullBatch == [Batch(<<>>, FALSE, NoGeo) EXCEPT !.isNull = TRUE]

SummarizeBody(topics, goodNewsOnly, geo) ==
  [endpoint |-> "summarize", isArray |-> TRUE,
   batches |-> <<Batch(topics, goodNewsOnly, SingleGeoData(geo))>>]

BatchBody(batches) == [endpoint |-> "batch", isArray |-> TRUE, batches |-> batches]

NotArrayBody(endpoint) == [endpoint |-> endpoint, isArray |-> FALSE, batches |-> <<>>]

GateBodies ==
  { NotArrayBody("summarize"), NotArrayBody("batch"),
    SummarizeBody(<<>>, FALSE, NoGeo), SummarizeBody(<<"business">>, FALSE, NoGeo),
    BatchBody(<<NullBatch>>),
    BatchBody(<<Batch(<<"business">>, FALSE, BatchFilterGeo("us"))>>) }

GateFetches == { FetchThrew, Fetched(<<ArtGeoTitle>>) }

GateTokens == {1, NoUser}

NextGate ==
  \/ \E r \in Slots : Receive(r, GateTokens, GateBodies) /\ UNCHANGED <<filterVars, cacheVars>>
  \/ \E r \in Slots : ProcessTopic(r, GateFetches, {"text"}, {0}) /\ UNCHANGED <<filterVars, cacheVars>>
  \/ \E r \in Slots : Finish(r) /\ UNCHANGED <<filterVars, cacheVars>>
  \/ Midnight /\ UNCHANGED <<filterVars, cacheVars>>
  \/ \E u \in GateTokens \ {NoUser} : SetPremium(u) /\ UNCHANGED <<filterVars, cacheVars>>

vars == <<fArgs, fRet, dbUp, hasOpenAiKey, today, users, reqs, lastCheck, lastResp,
          recorded, cacheConnected, hasNewsKey, clock, cache, timers, calls, lastFetch,
          lastStore>>

\* The filter harness, idle.
FilterIdle ==
  /\ fArgs = [topic |-> "", geo |-> NoGeo, articles |-> <<>>, minCount |-> 0]
  /\ fRet = FilterPending

InitSpec == InitGate /\ hasOpenAiKey = TRUE /\ FilterIdle /\ CacheIdle

\* The requests, the usage gate and the clock; the filter harness stays idle.
Spec == InitSpec /\ [][NextGate]_vars

InitSpecFilter ==
  InitFilter /\ InitGate /\ dbUp = FALSE /\ hasOpenAiKey = FALSE /\ CacheIdle

NextSpecFilter == CallFilter /\ UNCHANGED <<gateVars, cacheVars>>

\* The harness of the relevance filter; the server takes no request.
SpecFilter == InitSpecFilter /\ [][NextSpecFilter]_vars

(***************************************************************************)
(* The orchestrator alone: one anonymous request at a time, over fetch     *)
(* results and completion outcomes of every kind.                          *)
(***************************************************************************)
ArtUplifting == MkArticle("LA festival", "music", "u6", "t6", FALSE)
ArtBadSnippet == MkArticle("7", "", "u7", "", TRUE)

OrchFetches ==
  { FetchThrew,
    Fetched(<<>>),
    Fetched(<<ArtGeoTitle, ArtTopicTitle, ArtNoTitle>>),
    Fetched(<<ArtGeoTitle, ArtTopicTitle, ArtBadTitle>>),
    Fetched(<<ArtPlain, ArtPlain>>),
    Fetched(<<ArtUplifting>>),
    Fetched(<<ArtGeoTitle, ArtBadSnippet>>) }

OrchTopicLists ==
  { <<>>, <<"business", "local">>, <<"business", "Mars", "local">>, <<"Mars", "Mars">> }

OrchBodies ==
  { SummarizeBody(topics, g, geo) :
      topics \in OrchTopicLists, g \in BOOLEAN, geo \in {NoGeo, GeoLA} }
  \cup { BatchBody(<<Batch(topics, g, BatchFilterGeo("us"))>>) :
           topics \in OrchTopicLists, g \in BOOLEAN }
  \cup { BatchBody(<<Batch(<<"business">>, FALSE, BatchFilterGeo("")),
                     Batch(<<"local">>, TRUE, BatchFilterGeo("us"))>>),
         BatchBody(<<NullBatch>>), NotArrayBody("summarize") }

NextOrch ==
  \/ Receive(1, {NoUser}, OrchBodies) /\ UNCHANGED <<filterVars, cacheVars>>
  \/ ProcessTopic(1, OrchFetches, LlmOutcomes, {0}) /\ UNCHANGED <<filterVars, cacheVars>>
  \/ Finish(1) /\ UNCHANGED <<filterVars, cacheVars>>

InitSpecOrch == InitGate /\ dbUp = FALSE /\ FilterIdle /\ CacheIdle

\* The per-topic loops, the backfill and the response of one request at a time.
SpecOrch == InitSpecOrch /\ [][NextOrch]_vars

\* A step made a canFetchNews call on a user.
Checked == lastCheck.uid # NoUser

\* The step answered one of the two summarize endpoints.
AnsweredSummarize == lastResp.endpoint \in {"summarize", "batch"}

\* The step sent the 200 of a summarize request.
Responded200 == lastResp.status = 200 /\ AnsweredSummarize

Results == 1..Len(lastResp.results)

\* C6: at the end of a request, a candidate pool of at least 3 entries that
\* are distinct by key (url, or id when url is empty) gives a final items
\* list of length >= 3, whatever the filters kept and whichever topics failed.
C6_BackfillGuarantee ==
  Responded200 =>
    \A b \in Results :
      Cardinality(ItemKeys(lastResp.results[b].pool)) >= 3 =>
        Len(lastResp.results[b].items) >= 3

\* A topic failed after its articles were pooled, fewer than 3 items were
\* kept, and the backfill brought the list to 3.
C6_Witness ==
  /\ Responded200
  /\ \E b \in Results :
       LET res == lastResp.results[b] IN
       /\ Cardinality(ItemKeys(res.pool)) >= 3
       /\ Len(res.before) < 3
       /\ Len(res.items) >= 3
       /\ \E k \in 1..Len(res.trail) : res.trail[k].failed

\* What an item shows of the topic it came from.
ItemShape(i) == [topic |-> i.topic, kind |-> i.kind, title |-> i.title, url |-> i.url]

\* The items the topics of a trail account for, in order: one error item for
\* a failed topic, the retained articles for the others.
RECURSIVE TrailShapes(_)
TrailShapes(trail) ==
  IF trail = <<>> THEN <<>>
  ELSE LET e == Head(trail) IN
       (IF e.failed
        THEN <<[topic |-> e.topic, kind |-> "error",
                title |-> "Issue fetching " \o e.topic, url |-> ""]>>
        ELSE [k \in 1..Len(e.relevant) |->
                [topic |-> e.topic, kind |-> "article", title |-> e.relevant[k].title,
                 url |-> e.relevant[k].url]])
       \o TrailShapes(Tail(trail))

\* C7: when the pipeline of a topic throws (fetch, pool, filter, good-news
\* filter), the request still ends in a 200 whose items hold exactly one
\* error item for that topic at its place, the items of every other topic
\* before and after it, and the summaries of the other topics; every topic
\* of the list was gone through.
C7_FailureIsolation ==
  Responded200 =>
    \A b \in Results :
      LET res == lastResp.results[b] IN
      /\ Len(res.trail) = Len(lastResp.topics[b])
      /\ \A k \in 1..Len(res.trail) : res.trail[k].topic = lastResp.topics[b][k]
      /\ [k \in 1..Len(res.before) |-> ItemShape(res.before[k])] = TrailShapes(res.trail)
      /\ Len(res.items) >= Len(res.before)
      /\ SubSeq(res.items, 1, Len(res.before)) = res.before
      /\ \A k \in (Len(res.before) + 1)..Len(res.items) : res.items[k].kind = "candidate"
      /\ res.text =
           Trim(Join(NonEmpty([k \in 1..Len(res.trail) |-> res.trail[k].text]), " "))

\* The second of three topics failed; the first and the third kept articles.
C7_Witness ==
  /\ Responded200
  /\ \E b \in Results :
       LET res == lastResp.results[b] IN
       /\ Len(res.trail) = 3
       /\ ~res.trail[1].failed /\ Len(res.trail[1].relevant) > 0
       /\ res.trail[2].failed /\ res.trail[2].stage = "filter"
       /\ ~res.trail[3].failed /\ Len(res.trail[3].relevant) > 0
       /\ Cardinality({k \in 1..Len(res.items) : res.items[k].kind = "error"}) = 1

\* The trails of the requests in flight and of the response just sent.
AllTrails ==
  UNION { { reqs[r].accs[b].trail : b \in 1..Len(reqs[r].accs) } : r \in Slots }
  \cup { lastResp.results[b].trail : b \in Results }

\* C8: summarizeArticles never throws: no topic fails at the summarize stage,
\* and a topic whose completion call failed (exception or timeout, malformed
\* body, empty content) or whose prompt could not be built gets the fallback
\* text made of the first three titles; the response is never a 500 for it.
C8_SummarizeNeverFails ==
  \A trail \in AllTrails : \A k \in 1..Len(trail) :
    LET e == trail[k] IN
    /\ e.stage # "summarize"
    /\ (e.llm \in {"throws", "malformed", "empty"} \/ e.path = "catch") =>
         /\ ~e.failed
         /\ e.path = "catch"
         /\ \E g \in BOOLEAN :
              e.text = "Here's your " \o (IF g THEN "uplifting " ELSE "") \o e.topic
                         \o " news. "
                         \o Join(NonEmpty(Titles(FirstN(e.relevant, 3))), ". ") \o "."

\* A response 200 one of whose topics had its completion call throw.
C8_Witness ==
  /\ Responded200
  /\ \E b \in Results : \E k \in 1..Len(lastResp.results[b].trail) :
       LET e == lastResp.results[b].trail[k] IN
       /\ e.llm = "throws"
       /\ ~e.failed
       /\ e.text = "Here's your business news. LA fire. Mars."

\* The scenario: topics ["business", "local"], both fetched with articles, the
\* completion call of one topic throws and the other answers.
C9_Scenario ==
  /\ Responded200
  /\ lastResp.topics = <<(<<"business", "local">>)>>
  /\ \E k \in 1..2 :
       /\ lastResp.results[1].trail[k].llm = "throws"
       /\ lastResp.results[1].trail[3 - k].llm = "text"

\* The topic of the scenario whose completion call threw.
C9_Thrown == CHOOSE k \in 1..2 : lastResp.results[1].trail[k].llm = "throws"

C9_ItemsOf(topic, kind) ==
  { k \in 1..Len(lastResp.results[1].items) :
      /\ lastResp.results[1].items[k].topic = topic
      /\ lastResp.results[1].items[k].kind = kind }

\* C9 as stated: the response holds the items of the successful topic and
\* exactly one error item for the topic whose completion call threw.
C9_ErrorItemForThrownTopic ==
  C9_Scenario =>
    LET res == lastResp.results[1]
        bad == res.trail[C9_Thrown].topic
        good == res.trail[3 - C9_Thrown].topic
    IN  /\ Cardinality(C9_ItemsOf(bad, "error")) = 1
        /\ Cardinality(C9_ItemsOf(good, "article")) = Len(res.trail[3 - C9_Thrown].relevant)

\* C9, amended: in the scenario the response is a 200 that holds the article
\* items of both topics and no error item; the topic whose completion call
\* threw contributes the fallback text of summarizeArticles.
C9_FallbackForThrownTopic ==
  C9_Scenario =>
    LET res == lastResp.results[1]
        bad == res.trail[C9_Thrown]
        good == res.trail[3 - C9_Thrown]
    IN  /\ lastResp.status = 200
        /\ Cardinality(C9_ItemsOf(bad.topic, "error")) = 0
        /\ Cardinality(C9_ItemsOf(good.topic, "error")) = 0
        /\ Cardinality(C9_ItemsOf(bad.topic, "article")) = Len(bad.relevant)
        /\ Cardinality(C9_ItemsOf(good.topic, "article")) = Len(good.relevant)
        /\ Len(bad.relevant) > 0
        /\ ~bad.failed /\ bad.path = "catch"
        /\ \E g \in BOOLEAN : bad.text = CatchText(bad.topic, bad.relevant, g)
        /\ good.text = LlmText

\* The completion call of "local" threw, that of "business" answered.
C9_Witness ==
  /\ C9_Scenario
  /\ lastResp.results[1].trail[2].llm = "throws"
  /\ lastResp.endpoint = "summarize"
  /\ Len(lastResp.results[1].trail[1].relevant) = 3
  /\ Len(lastResp.results[1].trail[2].relevant) = 3

(***************************************************************************)
(* The usage gate.                                                         *)
(***************************************************************************)
\* C2: whenever canFetchNews is evaluated for a user whose lastUsageDate is on
\* another calendar day than now, the count is 0 and lastUsageDate is now
\* before the quota is evaluated: a free user is then allowed with
\* dailyCount = 0 (and is not answered 429), whatever the count was.
C2_QuotaRollover ==
  (Checked /\ lastCheck.before.lastUsageDate # lastCheck.day) =>
    /\ lastCheck.after.dailyUsageCount = 0
    /\ lastCheck.after.lastUsageDate = lastCheck.day
    /\ lastCheck.stored.dailyUsageCount = 0
    /\ lastCheck.stored.lastUsageDate = lastCheck.day
    /\ ~lastCheck.after.isPremium =>
         /\ lastCheck.allowed
         /\ lastCheck.reason = "free_quota"
         /\ lastCheck.dailyCount = 0
         /\ lastResp.status # 429

\* A free user with a count of 1 from yesterday makes the first check of the day.
C2_Witness ==
  /\ Checked
  /\ ~lastCheck.before.isPremium
  /\ lastCheck.before.dailyUsageCount = 1
  /\ lastCheck.before.lastUsageDate = lastCheck.day - 1
  /\ lastCheck.allowed
  /\ lastCheck.dailyCount = 0

\* C3: for a non-premium user, a canFetchNews that overlaps no other request
\* of the user and comes after a usage of the user was recorded on the same
\* calendar day answers allowed = false with the current dailyCount attached,
\* and the summarize endpoints answer 429.
C3_FreeDailyLimit ==
  (Checked /\ ~lastCheck.after.isPremium /\ lastCheck.recorded /\ ~lastCheck.overlap) =>
    /\ ~lastCheck.allowed
    /\ lastCheck.reason = "daily_limit_reached"
    /\ lastCheck.dailyCount = lastCheck.after.dailyUsageCount
    /\ lastCheck.dailyCount >= DAILY_LIMIT
    /\ AnsweredSummarize => lastResp.status = 429 /\ lastResp.dailyCount = lastCheck.dailyCount

\* A second summarize request of a free user, on the day of the first, gets 429.
C3_Witness ==
  /\ Checked
  /\ ~lastCheck.after.isPremium /\ lastCheck.recorded /\ ~lastCheck.overlap
  /\ lastCheck.before.lastUsageDate = lastCheck.day
  /\ lastResp.endpoint = "summarize"
  /\ lastResp.status = 429
  /\ lastResp.dailyCount = 1

\* C4: canFetchNews for a premium user answers allowed = true, whatever the
\* count and the day of lastUsageDate, and the summarize endpoints never
\* answer 429.
C4_PremiumBypass ==
  (Checked /\ lastCheck.after.isPremium) =>
    /\ lastCheck.allowed
    /\ lastCheck.reason = "premium"
    /\ lastResp.status # 429

\* A premium user at the daily limit, counted today, is checked.
C4_Witness ==
  /\ Checked
  /\ lastCheck.after.isPremium
  /\ lastCheck.before.lastUsageDate = lastCheck.day
  /\ lastCheck.after.dailyUsageCount >= DAILY_LIMIT
  /\ lastCheck.allowed

\* Every topic of every batch of the response has its loop iteration behind it.
AllTopicsProcessed(resp) ==
  /\ Len(resp.results) = Len(resp.topics)
  /\ \A b \in 1..Len(resp.topics) : Len(resp.results[b].trail) = Len(resp.topics[b])

\* C5: a step that invokes incrementUsage is the step that sends the 200 of an
\* authenticated request, with every topic processed and the result assembled;
\* a stored count grows in no other step, so never in a step that answers 429,
\* 400 or 500.
C5_UsageAfterPipeline ==
  [][ /\ lastResp'.incremented =>
           /\ lastResp'.status = 200
           /\ lastResp'.token # NoUser
           /\ AllTopicsProcessed(lastResp')
      /\ (\E u \in UserIds : users'[u].dailyUsageCount > users[u].dailyUsageCount) =>
           lastResp'.incremented
      /\ lastResp'.status \in {429, 400, 500} =>
           \A u \in UserIds : users'[u].dailyUsageCount <= users[u].dailyUsageCount
    ]_vars

\* A batch request with a topic has recorded its usage.
C5_Witness ==
  /\ lastResp.incremented
  /\ lastResp.endpoint = "batch"
  /\ lastResp.status = 200
  /\ Len(lastResp.topics) = 1 /\ Len(lastResp.topics[1]) = 1
  /\ users[lastResp.token].dailyUsageCount = 1

(***************************************************************************)
(* The article cache under calls that overlap.                             *)
(***************************************************************************)
NextCache ==
  \/ \E c \in FetchCalls : FetchStart(c, FetchTopics, FetchGeos, FetchSizes, {"ok"})
       /\ UNCHANGED <<filterVars, gateVars>>
  \/ \E c \in FetchCalls : FetchFinish(c, ProviderResults, {"ok"})
       /\ UNCHANGED <<filterVars, gateVars>>
  \/ TimerFire /\ UNCHANGED <<filterVars, gateVars>>
  \/ Tick /\ UNCHANGED <<filterVars, gateVars>>

InitSpecCache ==
  InitCache /\ InitGate /\ dbUp = FALSE /\ hasOpenAiKey = FALSE /\ FilterIdle

\* fetchArticlesForTopic calls, the cache and its clock; the server takes no request.
SpecCache == InitSpecCache /\ [][NextCache]_vars

\* C10: once a call has completed and stored its result, a later call with
\* the same (topic, geo, clamped size) that starts within 900 seconds of the
\* most recent store of that key returns the stored article set and makes no
\* provider query.
C10_CacheIdempotence ==
  (lastFetch.started /\ hasNewsKey /\ lastFetch.ref.stored
     /\ lastFetch.at < lastFetch.ref.at + 900) =>
    /\ lastFetch.hit
    /\ ~lastFetch.providerCalled
    /\ lastFetch.value = lastFetch.ref.value

----------------------------------------------------------------------------
\* The cache with a Redis server that can reject a command and whose
\* connection comes and goes.

FailGeos == {NoGeo}

FailSizes == {60}

FailResults == { FetchThrew, Fetched(<<ArtGeoTitle>>) }

FailKeys == { getNewsKey(t, g, PageSize(n)) : t \in FetchTopics, g \in FailGeos, n \in FailSizes }

NextCacheFail ==
  \/ /\ \E c \in FetchCalls : FetchStart(c, FetchTopics, FailGeos, FailSizes, RedisOps)
     /\ UNCHANGED <<filterVars, gateVars>>
  \/ /\ \E c \in FetchCalls : FetchFinish(c, FailResults, RedisOps)
     /\ UNCHANGED <<filterVars, gateVars>>
  \/ /\ CacheDelete(FailKeys, RedisOps)
     /\ UNCHANGED <<filterVars, gateVars>>
  \/ /\ ConnectionChange
     /\ UNCHANGED <<filterVars, gateVars>>
  \/ /\ TimerFire
     /\ UNCHANGED <<filterVars, gateVars>>
  \/ /\ Tick
     /\ UNCHANGED <<filterVars, gateVars>>

InitSpecCacheFail ==
  InitCache /\ InitGate /\ dbUp = FALSE /\ hasOpenAiKey = FALSE /\ FilterIdle

SpecCacheFail == InitSpecCacheFail /\ [][NextCacheFail]_vars

\* C11: no cache operation throws; a lookup that Redis rejects is a miss (the
\* provider is queried and the call goes on), a store or a deletion that Redis
\* rejects changes nothing, and the fetch still returns the provider's answer.
C11_CacheFailureIsMiss ==
  /\ [](~lastFetch.cacheThrew)
  /\ []((lastFetch.phase = "start" /\ lastFetch.cacheFailed) =>
          /\ ~lastFetch.hit
          /\ lastFetch.providerCalled
          /\ ~lastFetch.threw
          /\ \E c \in FetchCalls :
               calls[c].pc = "fetching" /\ calls[c].key = lastFetch.key)
  /\ []((lastFetch.phase = "finish" /\ lastFetch.cacheFailed) => ~lastFetch.threw)
  /\ [][(lastFetch'.phase \in {"finish", "del"} /\ lastFetch'.cacheFailed) =>
          (cache' = cache /\ timers' = timers)]_vars

\* Redis rejects the lookup of a key whose entry is still alive.
C11_Witness ==
  /\ lastFetch.phase = "start"
  /\ lastFetch.cacheFailed
  /\ cache[<<"redis", lastFetch.key>>].present
  /\ clock < cache[<<"redis", lastFetch.key>>].expiresAt

----------------------------------------------------------------------------
\* One call of fetchArticlesForTopic after its cache miss: its provider
\* queries end one by one, in any order, and the call returns or throws.

GeoCA == MkGeo("", "CA", "", "")

PlanTopics == {"general", "local", "business", "Mars"}

PlanGeos == {NoGeo, GeoLA, GeoCA}

PlanSizes == {2}

PlanKeys ==
  { getNewsKey(t, g, PageSize(n)) : t \in PlanTopics, g \in PlanGeos, n \in PlanSizes }

QueryOutcomes ==
  { QueryFailed, QueryOk(<<ArtNoTitle>>), QueryOk(<<ArtGeoTitle, ArtTopicTitle>>) }

NextPlan ==
  \/ /\ QuerySettle(1, QueryOutcomes)
     /\ UNCHANGED <<filterVars, gateVars>>
  \/ /\ calls[1].pc = "fetching"
     /\ PlanSettled(calls[1])
     /\ FetchFinish(1, {PlanResult(calls[1])}, {"ok"})
     /\ UNCHANGED <<filterVars, gateVars>>

InitSpecPlan ==
  /\ InitGate /\ dbUp = FALSE /\ hasOpenAiKey = FALSE /\ FilterIdle
  /\ cacheConnected = FALSE
  /\ hasNewsKey = TRUE
  /\ clock = 0
  /\ cache = [s \in Backends \X PlanKeys |-> Absent]
  /\ timers = {}
  /\ \E topic \in PlanTopics, geo \in PlanGeos, maxResults \in PlanSizes :
       calls = [c \in FetchCalls |->
                  IF c = 1 THEN MissedCall(topic, geo, PageSize(maxResults)) ELSE IdleCall]
  /\ lastFetch = NoFetch
  /\ lastStore = [k \in PlanKeys |-> NoStore]

SpecPlan == InitSpecPlan /\ [][NextPlan]_vars

\* The call has ended, with these queries.
Finished == lastFetch.phase = "finish"

\* C12: whatever the topic, a fetch whose provider queries fail returns a list
\* of articles (empty or partial); it does not throw.
C12_ProviderFailureContained ==
  (Finished /\ \E i \in DOMAIN lastFetch.branches : lastFetch.branches[i].state = "failed")
    => ~lastFetch.threw

\* C13: the list a fetch returns, which is the list it stores in the cache,
\* holds no provider article twice (no two entries with the same url).
C13_ResultDeduplicated ==
  (Finished /\ ~lastFetch.threw) =>
    /\ \A i, j \in DOMAIN lastFetch.value :
         i # j => lastFetch.value[i].url # lastFetch.value[j].url
    /\ lastStore[lastFetch.key].value = lastFetch.value

\* What the branches that succeeded returned, in the order of the branches.
SucceededArticles(branches) ==
  Flat([i \in DOMAIN branches |->
          IF branches[i].state = "ok" THEN branches[i].articles ELSE <<>>])

\* C14: a fetch of "local" ends only when every one of its queries has
\* succeeded or failed; it does not throw, and it returns what the successful
\* queries returned, in their order, cut to the page size: a failed query adds
\* nothing and takes nothing away.
C14_LocalSettleAll ==
  (Finished /\ TopicClass(lastFetch.topic) = "local") =>
    /\ \A i \in DOMAIN lastFetch.branches : lastFetch.branches[i].state # "pending"
    /\ ~lastFetch.threw
    /\ lastFetch.value =
         SubSeq(SucceededArticles(lastFetch.branches), 1,
                Min2(Len(SucceededArticles(lastFetch.branches)), lastFetch.pageSize))

\* A local fetch in which one query failed and another answered.
C14_Witness ==
  /\ Finished
  /\ TopicClass(lastFetch.topic) = "local"
  /\ \E i \in DOMAIN lastFetch.branches : lastFetch.branches[i].state = "failed"
  /\ \E i \in DOMAIN lastFetch.branches : lastFetch.branches[i].state = "ok"
  /\ Len(lastFetch.value) = lastFetch.pageSize
  /\ Len(SucceededArticles(lastFetch.branches)) > lastFetch.pageSize

\* The first article of each chosen branch that answered with one.
OnePerBranch(branches, chosen) ==
  Flat([i \in DOMAIN branches |->
          IF i \in chosen /\ branches[i].state = "ok" /\ branches[i].articles # <<>>
          THEN <<branches[i].articles[1]>> ELSE <<>>])

\* C15: a fetch of "general" asks for the seven categories business,
\* entertainment, health, science, sports, technology and world, "world" by
\* free-text search and the others by category, and returns at most one
\* article of each.
C15_GeneralOnePerCategory ==
  (Finished /\ TopicClass(lastFetch.topic) = "general") =>
    /\ ~lastFetch.threw
    /\ Len(lastFetch.branches) = 7
    /\ \A i \in 1..7 :
         LET query == lastFetch.branches[i].query
             category == <<"business", "entertainment", "health", "science", "sports",
                           "technology", "world">>[i]
         IN IF category = "world"
            THEN query.api = "everything" /\ query.q = "world"
            ELSE query.api = "top-headlines" /\ query.category = category
    /\ \E chosen \in SUBSET (1..7) :
         lastFetch.value = OnePerBranch(lastFetch.branches, chosen)

\* Every category answered with two articles and the fetch returned seven.
C15_Witness ==
  /\ Finished
  /\ TopicClass(lastFetch.topic) = "general"
  /\ \A i \in DOMAIN lastFetch.branches : Len(lastFetch.branches[i].articles) = 2
  /\ Len(lastFetch.value) = 7

\* C16: when all seven queries of a fetch of "general" fail, the fetch sends
\* one plain top-headlines query for the category "general" and returns the
\* articles of that query.
C16_GeneralFallbackQuery ==
  (/\ Finished
   /\ TopicClass(lastFetch.topic) = "general"
   /\ \A i \in 1..7 : lastFetch.branches[i].state = "failed") =>
    \E i \in DOMAIN lastFetch.branches :
      /\ lastFetch.branches[i].query.api = "top-headlines"
      /\ lastFetch.branches[i].query.category = "general"
      /\ lastFetch.branches[i].query.q = ""
      /\ lastFetch.branches[i].state = "ok"
      /\ lastFetch.value = lastFetch.branches[i].articles

----------------------------------------------------------------------------
\* The service without NEWSAPI_KEY.

NextNoKey ==
  \/ /\ \E c \in FetchCalls : FetchStart(c, PlanTopics, PlanGeos, PlanSizes, RedisOps)
     /\ UNCHANGED <<filterVars, gateVars>>
  \/ /\ ConnectionChange
     /\ UNCHANGED <<filterVars, gateVars>>
  \/ /\ Tick
     /\ UNCHANGED <<filterVars, gateVars>>

InitSpecNoKey ==
  /\ InitGate /\ dbUp = FALSE /\ hasOpenAiKey = FALSE /\ FilterIdle
  /\ cacheConnected \in BOOLEAN
  /\ hasNewsKey = FALSE
  /\ clock = 0
  /\ cache = [s \in Backends \X PlanKeys |-> Absent]
  /\ timers = {}
  /\ calls = [c \in FetchCalls |-> IdleCall]
  /\ lastFetch = NoFetch
  /\ lastStore = [k \in PlanKeys |-> NoStore]

SpecNoKey == InitSpecNoKey /\ [][NextNoKey]_vars

\* C17: without a provider key a fetch returns no article and the note
\* "Missing NEWSAPI_KEY", and it neither looks into the cache, nor stores
\* anything, nor queries the provider; the relevance filter returns the empty
\* list for that answer, and the summary of it is the "No recent coverage found
\* for ..." sentence, made without a call of the language model.
C17_NoProviderKey ==
  /\ []((lastFetch.phase = "start" /\ ~hasNewsKey) =>
          /\ lastFetch.value = <<>>
          /\ lastFetch.note = "Missing NEWSAPI_KEY"
          /\ ~lastFetch.threw
          /\ ~lastFetch.cacheRead
          /\ ~lastFetch.providerCalled
          /\ \A c \in FetchCalls : calls[c].pc = "idle"
          /\ \A minCount \in 0..MaxMin :
               filterRelevantArticles(lastFetch.topic, lastFetch.geo, lastFetch.value,
                                      minCount) = <<>>
          /\ \A good \in BOOLEAN, llmKey \in BOOLEAN, llm \in LlmOutcomes :
               LET summary == summarizeArticles(lastFetch.topic, lastFetch.geo,
                                                lastFetch.value, good, llmKey, llm)
               IN  /\ ~summary.threw
                   /\ ~summary.llmCalled
                   /\ summary.text = "No recent coverage found for "
                                       \o SummaryBase(lastFetch.topic, lastFetch.geo) \o ".")
  /\ [][(lastFetch'.phase = "start" /\ ~hasNewsKey) =>
          (cache' = cache /\ timers' = timers /\ lastStore' = lastStore)]_vars

\* The scenario: topic "local", no geo, no provider key.
C17_Witness ==
  /\ lastFetch.phase = "start"
  /\ ~hasNewsKey
  /\ lastFetch.topic = "local"
  /\ lastFetch.geo = NoGeo
  /\ summarizeArticles("local", NoGeo, lastFetch.value, FALSE, TRUE, "text").text
       = "No recent coverage found for local."

----------------------------------------------------------------------------
\* One user record kept twice, as a Mongoose document (users[1]) and as an
\* object of fallbackAuth (users[2]); every check and every increment is made
\* on both at the same time.

StoresCheck ==
  /\ users' = [u \in UserIds |->
                 IF u = 1 THEN UserCanFetchNews(users[1], today).user
                 ELSE FallbackCanFetchNews(users[2], today).user]
  /\ lastCheck' =
       [NoCheck EXCEPT !.uid = 1, !.token = 1, !.day = today, !.before = users[1],
                       !.after = UserCanFetchNews(users[1], today).user,
                       !.stored = FallbackCanFetchNews(users[2], today).user,
                       !.allowed = UserCanFetchNews(users[1], today).answer.allowed,
                       !.reason = UserCanFetchNews(users[1], today).answer.reason,
                       !.dailyCount = UserCanFetchNews(users[1], today).answer.dailyCount]
  /\ UNCHANGED <<dbUp, hasOpenAiKey, today, reqs, lastResp, recorded>>

StoresIncrement ==
  /\ \A u \in UserIds : users[u].dailyUsageCount < MaxCount
  /\ users' = [u \in UserIds |->
                 IF u = 1 THEN UserIncrementUsage(users[1], today)
                 ELSE FallbackIncrementUsage(users[2], today)]
  /\ lastCheck' =
       [NoCheck EXCEPT !.uid = 1, !.token = 1, !.day = today, !.before = users[1],
                       !.after = UserIncrementUsage(users[1], today),
                       !.stored = FallbackIncrementUsage(users[2], today),
                       !.reason = "increment"]
  /\ UNCHANGED <<dbUp, hasOpenAiKey, today, reqs, lastResp, recorded>>

\* updateSubscription(isPremium, ...) of both stores
StoresUpdateSubscription ==
  /\ \E p \in BOOLEAN :
       /\ users' = [u \in UserIds |-> [users[u] EXCEPT !.isPremium = p]]
       /\ lastCheck' =
            [NoCheck EXCEPT !.uid = 1, !.token = 1, !.day = today, !.before = users[1],
                            !.after = [users[1] EXCEPT !.isPremium = p],
                            !.stored = [users[2] EXCEPT !.isPremium = p],
                            !.reason = "subscription"]
  /\ UNCHANGED <<dbUp, hasOpenAiKey, today, reqs, lastResp, recorded>>

NextStores ==
  \/ /\ StoresUpdateSubscription
     /\ UNCHANGED <<filterVars, cacheVars>>
  \/ /\ StoresCheck
     /\ UNCHANGED <<filterVars, cacheVars>>
  \/ /\ StoresIncrement
     /\ UNCHANGED <<filterVars, cacheVars>>
  \/ /\ Midnight
     /\ UNCHANGED <<filterVars, cacheVars>>

InitSpecStores ==
  /\ dbUp = FALSE
  /\ hasOpenAiKey = FALSE
  /\ today \in 0..MaxDay
  /\ \E rec \in UserRecords :
       /\ rec.lastUsageDate <= today
       /\ users = [u \in UserIds |-> rec]
  /\ reqs = [r \in Slots |-> IdleReq]
  /\ lastCheck = NoCheck
  /\ lastResp = NoResp
  /\ recorded = [u \in UserIds |-> FALSE]
  /\ FilterIdle /\ CacheIdle

SpecStores == InitSpecStores /\ [][NextStores]_vars

----------------------------------------------------------------------------
\* relevant.filter(isUpliftingNews) on chosen article lists.

ArtAward == MkArticle("Award", "", "u8", "", FALSE)

ArtCleanEnergy == MkArticle("Clean", "Energy", "u9", "", FALSE)

ArtHopeFlood == MkArticle("Hope", "after the flood", "u10", "", FALSE)

MaxUplift == 2

UpliftArticles ==
  { ArtUplifting, ArtGeoTitle, ArtPlain, ArtNoTitle, ArtBadTitle, ArtAward,
    ArtCleanEnergy, ArtHopeFlood }

CallUplifting ==
  /\ fRet.state = "pending"
  /\ fRet' = IF \E i \in DOMAIN fArgs.articles : UpliftingThrows(fArgs.articles[i])
             THEN [state |-> "threw", out |-> <<>>]
             ELSE [state |-> "returned", out |-> FilterUplifting(fArgs.articles)]
  /\ UNCHANGED fArgs

NextSpecUplift == CallUplifting /\ UNCHANGED <<gateVars, cacheVars>>

InitSpecUplift ==
  /\ fArgs \in [topic : {""}, geo : {NoGeo},
                articles : SeqsUpTo(UpliftArticles, MaxUplift), minCount : {0}]
  /\ fRet = FilterPending
  /\ InitGate /\ dbUp = FALSE /\ hasOpenAiKey = FALSE
  /\ CacheIdle

SpecUplift == InitSpecUplift /\ [][NextSpecUplift]_vars

\* Some term of the list occurs in the lowercase text "title description".
TextHasTerm(article, terms) ==
  \E term \in terms : Includes(ToLower(article.title \o " " \o article.description), term)

\* C19: isUpliftingNews accepts an article exactly when its lowercase text
\* holds no negative term and at least one positive term; an article with a
\* negative and a positive term is rejected.
C19_UpliftingIffPositiveAndNoNegative ==
  fRet.state = "returned" =>
    \A a \in UpliftArticles :
      /\ (\E i \in DOMAIN fRet.out : fRet.out[i] = a) <=>
           /\ \E i \in DOMAIN fArgs.articles : fArgs.articles[i] = a
           /\ ~TextHasTerm(a, negativeKeywords)
           /\ TextHasTerm(a, upliftingKeywords)
      /\ (TextHasTerm(a, negativeKeywords) /\ TextHasTerm(a, upliftingKeywords)) =>
           \A i \in DOMAIN fRet.out : fRet.out[i] # a

\* An article with a positive and a negative term was rejected next to one
\* with a positive term only, which was accepted.
C19_Witness ==
  /\ fRet.state = "returned"
  /\ fArgs.articles = <<ArtHopeFlood, ArtCleanEnergy>>
  /\ fRet.out = <<ArtCleanEnergy>>

----------------------------------------------------------------------------
\* The containment rule of the topic class of `topic`, for one article.
ContainmentRule(topic, geo, a) ==
  LET hasGeoToken == TextHasAny(a.title, GeoTokens(geo)) \/ TextHasAny(a.description, GeoTokens(geo))
      hasTopicToken == \/ TextHasAny(a.title, TopicTokens(ToLower(topic)))
                       \/ TextHasAny(a.description, TopicTokens(ToLower(topic)))
  IN  CASE ToLower(topic) = "local" /\ GeoTokens(geo) # {} -> hasGeoToken
        [] ToLower(topic) = "local" -> TRUE
        [] ToLower(topic) \in CORE_CATEGORIES -> TRUE
        [] OTHER -> hasTopicToken

\* C20: in every list filterRelevantArticles returns, the articles the strict
\* pass kept satisfy the containment rule of the topic class and come first,
\* before every backfilled article, and the articles the scored backfill
\* appended stand in non-increasing order of their score.
C20_StrictFirstThenByScore ==
  fRet.state = "returned" =>
    LET arts == fArgs.articles
        out == fRet.out
        rule(a) == ContainmentRule(fArgs.topic, fArgs.geo, a)
        sc(a) == Score(ToLower(fArgs.topic), GeoTokens(fArgs.geo),
                       TopicTokens(ToLower(fArgs.topic)), a)
        nStrict == Cardinality({ i \in DOMAIN arts : rule(arts[i]) })
        kept == Min2(Min2(nStrict, fArgs.minCount), Len(out))
        scoredEnd == Min2(Len(out), Len(arts))
    IN  /\ \A i \in 1..kept : rule(out[i])
        /\ \A i \in 1..kept :
             out[i] = arts[SelectIdx(Iota(Len(arts)), [k \in DOMAIN arts |-> rule(arts[k])])[i]]
        /\ nStrict < fArgs.minCount =>
             /\ kept = nStrict
             /\ \A i \in (kept + 1)..Len(out) : ~rule(out[i])
             /\ \A i, j \in (kept + 1)..scoredEnd : i < j => sc(out[i]) >= sc(out[j])

\* One article passed the strict pass; the backfill put the better-scored of
\* the two others first, against their order in the input.
C20_Witness ==
  /\ fRet.state = "returned"
  /\ fArgs.topic = "Mars"
  /\ fArgs.geo = GeoLA
  /\ fArgs.articles = <<ArtPlain, ArtGeoTitle, ArtTopicTitle>>
  /\ fRet.out = <<ArtTopicTitle, ArtGeoTitle, ArtPlain>>

----------------------------------------------------------------------------
\* C21: for the topic "local" and an input of distinct articles, the list
\* filterRelevantArticles returns holds every article at most once and is not
\* longer than the input: the permissive pass appends only articles that are
\* not yet in the output.
C21_LocalPermissiveNoRepeat ==
  (/\ fRet.state = "returned"
   /\ ToLower(fArgs.topic) = "local"
   /\ \A i, j \in DOMAIN fArgs.articles : i # j => fArgs.articles[i] # fArgs.articles[j]) =>
    /\ \A i, j \in DOMAIN fRet.out : i # j => fRet.out[i] # fRet.out[j]
    /\ Len(fRet.out) <= Len(fArgs.articles)

----------------------------------------------------------------------------
\* Summarize requests of one free user on one day, two at a time.

RaceBodies ==
  { SummarizeBody(<<>>, FALSE, NoGeo), SummarizeBody(<<"business">>, FALSE, NoGeo) }

NextRace ==
  \/ /\ \E r \in Slots : Receive(r, {1}, RaceBodies)
     /\ UNCHANGED <<filterVars, cacheVars>>
  \/ /\ \E r \in Slots : ProcessTopic(r, GateFetches, {"text"}, {0})
     /\ UNCHANGED <<filterVars, cacheVars>>
  \/ /\ \E r \in Slots : Finish(r)
     /\ UNCHANGED <<filterVars, cacheVars>>

InitSpecRace == InitGate /\ hasOpenAiKey = FALSE /\ FilterIdle /\ CacheIdle

SpecRace == InitSpecRace /\ [][NextRace]_vars

\* C22: two summarize requests of a free user with no usage yet, the second
\* received while the first is still running, are both accepted, and with the
\* in-memory store the count stands at 2 when both have answered.
C22_RaceDoubleIncrement ==
  (/\ ~dbUp
   /\ lastResp.status = 200 /\ lastResp.endpoint = "summarize"
   /\ lastResp.incremented /\ lastResp.overlap
   /\ InFlight(FirstFallbackUser) = {}) =>
    users[FirstFallbackUser].dailyUsageCount = 2

\* Both requests have answered 200 and the free user's count is 2.
C22_Witness ==
  /\ ~dbUp
  /\ lastResp.status = 200 /\ lastResp.endpoint = "summarize"
  /\ lastResp.incremented /\ lastResp.overlap
  /\ InFlight(FirstFallbackUser) = {}
  /\ ~users[FirstFallbackUser].isPremium
  /\ users[FirstFallbackUser].dailyUsageCount = 2
  /\ today = 0

----------------------------------------------------------------------------
\* C23: in the in-memory cache the value of the latest set of a key is there
\* until ttlSeconds after that set, and gone once that time is over and the
\* deletions that are due have run; the deletion an earlier set of the key
\* scheduled does not remove it.
C23_FallbackExpiry ==
  ~cacheConnected =>
    \A k \in CacheKeys :
      lastStore[k].stored =>
        /\ clock < lastStore[k].at + NEWS_TTL =>
             /\ cache[<<"memory", k>>].present
             /\ cache[<<"memory", k>>].value = lastStore[k].value
        /\ (clock >= lastStore[k].at + NEWS_TTL /\ \A t \in timers : t.at > clock) =>
             ~cache[<<"memory", k>>].present


(***************************************************************************)
(* The two fallback texts of summarizeArticles.                            *)
(***************************************************************************)
\* C24: the text a topic gets when its completion call failed (the catch block
\* of summarizeArticles) is the text the branch "OpenAI API key not configured"
\* returns for the same topic, goodNewsOnly flag and articles, also when one
\* of the first three articles has an empty title.
C24_CatchTextIsNoKeyText ==
  (lastResp.status = 200 /\ lastResp.results # <<>>) =>
    \A b \in 1..Len(lastResp.results) :
      \A k \in 1..Len(lastResp.results[b].trail) :
        LET e == lastResp.results[b].trail[k] IN
          (~e.failed /\ e.path = "catch") =>
            \E g \in BOOLEAN :
              /\ e.text = CatchText(e.topic, e.relevant, g)
              /\ e.text = NoKeyText(e.topic, e.relevant, g)


(***************************************************************************)
(* How often an accepted request writes the usage record.                  *)
(***************************************************************************)
\* The step in which request slot r is accepted for a user: the usage check
\* allowed it and the per-topic loops start.
C25_Accepted(r) ==
  /\ reqs[r].pc = "idle" /\ reqs'[r].pc = "running"
  /\ reqs'[r].uid # NoUser

\* The step in which the handler of slot r records the usage and responds.
C25_Recorded(r) ==
  /\ reqs[r].pc = "running" /\ reqs'[r].pc = "idle"
  /\ reqs[r].uid # NoUser

C26_OneIncrementPerRequest ==
  [][\A r \in Slots :
       C25_Recorded(r) =>
         users'[reqs[r].uid].dailyUsageCount = users[reqs[r].uid].dailyUsageCount + 1
    ]_vars


(***************************************************************************)
(* Uplifting-only mode and the global backfill.                            *)
(***************************************************************************)
\* The articles the provider hands out in the orchestrator runs.
OrchArticles == UNION { Range(f.articles) : f \in { g \in OrchFetches : ~g.threw } }

\* The item is made from an article that isUpliftingNews accepts.
C27_ItemUplifting(i) ==
  \E a \in OrchArticles :
    /\ a.title = i.title /\ a.url = i.url
    /\ ~UpliftingThrows(a) /\ isUpliftingNews(a)

\* C27: when goodNewsOnly is set, every item of the final list that is not a
\* synthetic error item, backfilled items included, is an article that
\* isUpliftingNews accepts.
C27_UpliftingOnlyResponse ==
  Responded200 =>
    \A b \in Results :
      lastResp.goodNewsOnly[b] =>
        \A k \in 1..Len(lastResp.results[b].items) :
          LET i == lastResp.results[b].items[k] IN
            i.kind # "error" => C27_ItemUplifting(i)


(***************************************************************************)
(* What a fetch without any successful query leaves in the cache.          *)
(***************************************************************************)
\* C28: a fetch in which no provider query succeeded creates no cache entry
\* for its key: after a "local" or "general" fetch whose every branch failed
\* the key is still absent from the cache, so the next fetch of the key
\* misses and queries the provider again.
C28_NoEntryWithoutSuccess ==
  (/\ Finished
   /\ lastFetch.branches # <<>>
   /\ \A i \in DOMAIN lastFetch.branches : lastFetch.branches[i].state = "failed") =>
    /\ ~CacheGet(lastFetch.key).present
    /\ ~lastStore[lastFetch.key].stored


(***************************************************************************)
(* Overlapping fetches of one key.                                         *)
(***************************************************************************)
\* C29: of two fetchArticlesForTopic calls with the same cache key that
\* overlap, at most one queries the provider: two calls are never both
\* waiting for provider queries of the same key.
C29_OneProviderQueryPerKey ==
  \A c, d \in FetchCalls :
    (c # d /\ calls[c].pc = "fetching" /\ calls[d].pc = "fetching") =>
      calls[c].key # calls[d].key


(***************************************************************************)
(* Two users in fallback mode (no database).                               *)
(***************************************************************************)
\* The tokens of two registered users.
IsoTokens == {1, 2}

NextIso ==
  \/ \E r \in Slots : Receive(r, IsoTokens, RaceBodies) /\ UNCHANGED <<filterVars, cacheVars>>
  \/ \E r \in Slots : ProcessTopic(r, GateFetches, {"text"}, {0})
       /\ UNCHANGED <<filterVars, cacheVars>>
  \/ \E r \in Slots : Finish(r) /\ UNCHANGED <<filterVars, cacheVars>>
  \/ Midnight /\ UNCHANGED <<filterVars, cacheVars>>

InitSpecIso ==
  InitGate /\ dbUp = FALSE /\ hasOpenAiKey = FALSE /\ FilterIdle /\ CacheIdle

\* The server without MongoDB, two users of the fallback map sending requests.
SpecIso == InitSpecIso /\ [][NextIso]_vars

\* C30: in fallback mode a request works on the record of the user its token
\* names: the usage check and the usage recording of a request with the token
\* of one user leave the record of every other user as it is.
C30_FallbackQuotaIsolation ==
  [][~dbUp =>
       \A r \in Slots :
         /\ C25_Accepted(r) =>
              /\ reqs'[r].uid = reqs'[r].token
              /\ \A u \in UserIds \ {reqs'[r].token} : users'[u] = users[u]
         /\ C25_Recorded(r) =>
              \A u \in UserIds \ {reqs[r].token} : users'[u] = users[u]
    ]_vars

=============================================================================
